---- MODULE Spec2Model ----
(***************************************************************************)
(* A model of Auto-Coder's agentic execution loop (auto_coder/agent.py),   *)
(* its conversation store (auto_coder/state/conversation.py), its tool     *)
(* registry (auto_coder/tools/registry.py), the host's cancellation path   *)
(* (auto_coder/repl.py) and the streaming tool-call adapter                *)
(* (auto_coder/providers/openai_compatible.py), and of code_crafter's      *)
(* tool registry (code_crafter/tools/registry.py), edit-strategy engine    *)
(* (code_crafter/tools/edit_strategies.py), file tools                     *)
(* (code_crafter/tools/filesystem.py), safety gate                         *)
(* (code_crafter/tools/safety.py) and shell tool                           *)
(* (code_crafter/tools/shell.py), and of the provider's correlation id and *)
(* HTTP client (auto_coder/providers/openai_compatible.py).                *)
(*                                                                         *)
(* Python's None is modelled by the empty tuple and a present value x by   *)
(* the one-element tuple <<x>>, so that None, "" and [] stay distinct.     *)
(***************************************************************************)
EXTENDS Integers, Sequences, FiniteSets, TLC

VARIABLES
    messages,             \* ConversationManager._messages
    max_tool_iterations,  \* Agent.max_tool_iterations
    pc,                   \* position of the Agent.run generator
    iteration,            \* run(): iteration
    response_content,     \* run(): response_content
    tool_calls,           \* run(): tool_calls
    tc_i,                 \* run(): index of the tool call the for loop is at
    stream,               \* chunks the open provider stream has still to emit
    cancel_requested,     \* REPL._cancel_requested
    escape_pc,            \* where run() was when the flag was set, or "none"
    yielded,              \* items run() has handed to the host in this run
    events,               \* what happened in this run, in order
    run_start,            \* index in messages of this run's user message
    runs,                 \* number of run() calls started so far
    store_ops,            \* number of direct calls of the store's operations
    incomplete,           \* some run() was cancelled or abandoned
    lines_in,             \* _stream_response: the lines read so far
    tool_call_buffers,    \* _stream_response: tool_call_buffers, in insertion order
    chunks_out,           \* _stream_response: the chunks yielded so far
    stream_done,          \* _stream_response: the loop over the lines has ended
    _tools,               \* ToolRegistry._tools: name -> ToolDefinition
    dispatched,           \* the last execute_async call and what it did, or None
    file,                 \* the text of the file at file_path, or None when missing
    last_call,            \* the last filesystem tool call and what it did, or None
    _confirm_callback,    \* safety._confirm_callback: None or the callback set
    gate_call,            \* the last call into the safety gate and what it did
    cwd,                  \* os.getcwd(): the directory the process is in
    _correlation_id,      \* OpenAICompatibleProvider._correlation_id
    _client,              \* OpenAICompatibleProvider._client: None or the client
    uuid4_calls,          \* number of ids uuid.uuid4 has generated so far
    generators,           \* the client of each stream chat() returned, not yet iterated
    session,              \* the calls made on the provider so far, in order
    snapshot,             \* a list get_messages returned and its caller holds, or None
    payloads              \* payload["messages"] of each request chat() built, in order

streamVars == << lines_in, tool_call_buffers, chunks_out, stream_done >>

registryVars == << _tools, dispatched >>

fileVars == << file, last_call >>

gateVars == << _confirm_callback, gate_call, cwd >>

sessionVars == << _correlation_id, _client, uuid4_calls, generators, session >>

snapshotVars == << snapshot, payloads >>

(* everything Agent.run and the conversation store leave alone *)
nonAgentVars == << streamVars, registryVars, fileVars, gateVars, sessionVars,
    snapshotVars >>

agentVars == << messages, max_tool_iterations, pc, iteration, response_content,
                tool_calls, tc_i, stream, cancel_requested, escape_pc, yielded,
                events, run_start, runs, store_ops, incomplete >>

(* everything _stream_response leaves alone *)
nonStreamVars == << agentVars, registryVars, fileVars, gateVars, sessionVars,
    snapshotVars >>

(* everything the code_crafter tool registry leaves alone *)
nonRegistryVars == << agentVars, streamVars, fileVars, gateVars, sessionVars,
    snapshotVars >>

(* everything the code_crafter filesystem tools leave alone *)
nonFileVars == << agentVars, streamVars, registryVars, gateVars, sessionVars,
    snapshotVars >>

(* everything the safety gate and the tools that consult it leave alone *)
nonGateVars == << agentVars, streamVars, registryVars, fileVars, sessionVars,
    snapshotVars >>

(* everything the provider's session leaves alone *)
nonSessionVars == << agentVars, streamVars, registryVars, fileVars, gateVars,
    snapshotVars >>

----------------------------------------------------------------------------
(* Bounds of the model *)

MaxCalls == 2
MaxIterCap == 2
MaxLines == 3
MaxContent == 4
MaxOld == 2
MaxTokens == 2
MaxSession == 5
MaxPayloads == 2

(* Program constants *)

DefaultMaxToolIterations == 10

----------------------------------------------------------------------------
(* Optional values *)

None == << >>
Some(x) == << x >>
Truthy(o, empty) == o # None /\ o[1] # empty

(* providers/base.py *)

Message(role, content, tcs, tcid, name) ==
    [role |-> role, content |-> content, tool_calls |-> tcs,
     tool_call_id |-> tcid, name |-> name]

ToolCall(id, name, arguments) == [id |-> id, name |-> name, arguments |-> arguments]

ToolResult(tcid, name, content, is_error) ==
    [tool_call_id |-> tcid, name |-> name, content |-> content, is_error |-> is_error]

StreamChunk(content, tcs, finish_reason) ==
    [content |-> content, tool_calls |-> tcs, finish_reason |-> finish_reason]

----------------------------------------------------------------------------
(* OpenAICompatibleProvider._stream_response.                               *)
(*                                                                          *)
(* A string that is parsed is a sequence of characters.  The JSON texts of  *)
(* the model are built from { } : the key a and the digit 1:                *)
(*     value ::= object | number      number ::= 1 | 1 number               *)
(*     object ::= {} | {a:value}                                            *)
(* and a parsed value is a record of one shape for both kinds of value.     *)

JsonNumber(digits) == [type |-> "number", members |-> << >>, digits |-> digits]
JsonObject(members) == [type |-> "object", members |-> members, digits |-> << >>]
EmptyObject == JsonObject(<< >>)

ParseFailure == [ok |-> FALSE, next |-> 0, val |-> EmptyObject]

RECURSIVE DigitsFrom(_, _)
DigitsFrom(s, i) ==
    IF i <= Len(s) /\ s[i] = "1" THEN << "1" >> \o DigitsFrom(s, i + 1) ELSE << >>

(* the value that starts at position i of s, and where it ends *)
RECURSIVE ParseValue(_, _)
ParseValue(s, i) ==
    IF i > Len(s) THEN ParseFailure
    ELSE IF s[i] = "1" THEN
        LET ds == DigitsFrom(s, i) IN
            [ok |-> TRUE, next |-> i + Len(ds), val |-> JsonNumber(ds)]
    ELSE IF s[i] = "{" /\ i + 1 <= Len(s) /\ s[i + 1] = "}" THEN
        [ok |-> TRUE, next |-> i + 2, val |-> EmptyObject]
    ELSE IF s[i] = "{" /\ i + 2 <= Len(s) /\ s[i + 1] = "a" /\ s[i + 2] = ":" THEN
        LET r == ParseValue(s, i + 3) IN
            IF r.ok /\ r.next <= Len(s) /\ s[r.next] = "}"
            THEN [ok |-> TRUE, next |-> r.next + 1,
                  val |-> JsonObject(<< << "a", r.val >> >>)]
            ELSE ParseFailure
    ELSE ParseFailure

(* json.loads: the value, or None for JSONDecodeError *)
json_loads(s) ==
    LET r == ParseValue(s, 1) IN
        IF r.ok /\ r.next = Len(s) + 1 THEN Some(r.val) ELSE None

(* one entry of delta["tool_calls"] *)
Fragment(index, id, name, arguments) ==
    [index |-> index, id |-> id, name |-> name, arguments |-> arguments]

(* one line of the response body *)
Line(kind, content, frags, finish_reason) ==
    [kind |-> kind, content |-> content, tool_calls |-> frags,
     finish_reason |-> finish_reason]

NonData == Line("nondata", None, None, None)
Malformed == Line("malformed", None, None, None)
NoChoices == Line("nochoices", None, None, None)
Done == Line("done", None, None, None)
Delta(content, frags, finish_reason) == Line("delta", content, frags, finish_reason)

FragIdName == Fragment(0, Some("a"), Some("read_file"), None)
FragOpen == Fragment(0, None, None, Some(<< "{", "a" >>))
FragClose == Fragment(0, None, None, Some(<< ":", "1", "}" >>))
FragBrace == Fragment(0, Some("c"), Some("edit_file"), Some(<< "}" >>))
FragOther == Fragment(1, Some("b"), Some("write_file"), Some(<< "{", "}" >>))
FragBare == Fragment(1, None, None, Some(<< "1" >>))

DeltaLines ==
    { Delta(None, Some(<< f >>), None) :
        f \in { FragIdName, FragOpen, FragClose, FragBrace, FragOther, FragBare } }
    \cup { Delta(Some("hi"), None, None),
           Delta(None, None, Some("tool_calls")),
           Delta(None, None, Some("stop")),
           Delta(None, Some(<< FragClose >>), Some("tool_calls")),
           Delta(None, Some(<< FragOther, FragIdName >>), None) }

BufferIndexes(bufs) == { bufs[k].index : k \in 1..Len(bufs) }

BufferAt(bufs, idx) == CHOOSE k \in 1..Len(bufs) : bufs[k].index = idx

(* openai_compatible.py 267-281, a fragment that replaces the arguments *)
ApplyFragmentOverwriting(bufs, f) ==
    LET made == IF f.index \in BufferIndexes(bufs) THEN bufs
                ELSE Append(bufs, [index |-> f.index,
                                   id |-> IF f.id = None THEN "" ELSE f.id[1],
                                   name |-> "", arguments |-> << >>])
        k == BufferAt(made, f.index)
        old == made[k]
    IN  [made EXCEPT ![k] =
            [index |-> old.index,
             id |-> IF f.id # None THEN f.id[1] ELSE old.id,
             name |-> IF f.name # None THEN f.name[1] ELSE old.name,
             arguments |-> IF f.arguments # None THEN f.arguments[1]
                           ELSE old.arguments]]

(* openai_compatible.py 267-281: one tc_delta *)
ApplyFragment(bufs, f) ==
    LET made == IF f.index \in BufferIndexes(bufs) THEN bufs
                ELSE Append(bufs, [index |-> f.index,
                                   id |-> IF f.id = None THEN "" ELSE f.id[1],
                                   name |-> "", arguments |-> << >>])
        k == BufferAt(made, f.index)
        old == made[k]
    IN  [made EXCEPT ![k] =
            [index |-> old.index,
             id |-> IF f.id # None THEN f.id[1] ELSE old.id,
             name |-> IF f.name # None THEN f.name[1] ELSE old.name,
             arguments |-> IF f.arguments # None
                           THEN old.arguments \o f.arguments[1]
                           ELSE old.arguments]]

(* openai_compatible.py 265-266: for tc_delta in delta["tool_calls"] *)
RECURSIVE ApplyFragments(_, _)
ApplyFragments(bufs, frags) ==
    IF frags = << >> THEN bufs
    ELSE ApplyFragments(ApplyFragment(bufs, Head(frags)), Tail(frags))

(* openai_compatible.py 286-297 *)
ParsedCall(buf) ==
    LET parsed == json_loads(buf.arguments) IN
        ToolCall(buf.id, buf.name, IF parsed = None THEN EmptyObject ELSE parsed[1])

ParsedCalls(bufs) == [k \in 1..Len(bufs) |-> ParsedCall(bufs[k])]

StreamInit ==
    /\ lines_in = << >>
    /\ tool_call_buffers = << >>
    /\ chunks_out = << >>
    /\ stream_done = FALSE

MoreLines == ~stream_done /\ Len(lines_in) < MaxLines

(* openai_compatible.py 241-242: not a "data: " line *)
NonDataLine ==
    /\ MoreLines
    /\ lines_in' = Append(lines_in, NonData)
    /\ UNCHANGED << tool_call_buffers, chunks_out, stream_done >>
    /\ UNCHANGED nonStreamVars

(* openai_compatible.py 248-251, a decode error that ends the stream *)
MalformedLineEndingStream ==
    /\ MoreLines
    /\ lines_in' = Append(lines_in, Malformed)
    /\ stream_done' = TRUE
    /\ UNCHANGED << tool_call_buffers, chunks_out >>
    /\ UNCHANGED nonStreamVars

(* openai_compatible.py 248-251: json.JSONDecodeError *)
MalformedLine ==
    /\ MoreLines
    /\ lines_in' = Append(lines_in, Malformed)
    /\ UNCHANGED << tool_call_buffers, chunks_out, stream_done >>
    /\ UNCHANGED nonStreamVars

(* openai_compatible.py 253-254: no choices *)
NoChoicesLine ==
    /\ MoreLines
    /\ lines_in' = Append(lines_in, NoChoices)
    /\ UNCHANGED << tool_call_buffers, chunks_out, stream_done >>
    /\ UNCHANGED nonStreamVars

(* openai_compatible.py 245-246 *)
DoneLine ==
    /\ MoreLines
    /\ lines_in' = Append(lines_in, Done)
    /\ stream_done' = TRUE
    /\ UNCHANGED << tool_call_buffers, chunks_out >>
    /\ UNCHANGED nonStreamVars

(* openai_compatible.py 240: the body ends *)
EndOfBody ==
    /\ ~stream_done
    /\ stream_done' = TRUE
    /\ UNCHANGED << lines_in, tool_call_buffers, chunks_out >>
    /\ UNCHANGED nonStreamVars

(* openai_compatible.py 256-306: a line with a choice *)
DeltaLine ==
    /\ MoreLines
    /\ \E line \in DeltaLines :
          LET bufs == IF line.tool_calls # None
                      THEN ApplyFragments(tool_call_buffers, line.tool_calls[1])
                      ELSE tool_call_buffers
              calls == IF Truthy(line.finish_reason, "") /\ bufs # << >>
                       THEN Some(ParsedCalls(bufs))
                       ELSE None
          IN  /\ lines_in' = Append(lines_in, line)
              /\ tool_call_buffers' = bufs
              /\ chunks_out' = Append(chunks_out,
                                      StreamChunk(line.content, calls,
                                                  line.finish_reason))
    /\ UNCHANGED stream_done
    /\ UNCHANGED nonStreamVars

NextStream ==
    \/ NonDataLine
    \/ MalformedLine
    \/ NoChoicesLine
    \/ DoneLine
    \/ EndOfBody
    \/ DeltaLine

----------------------------------------------------------------------------
(* code_crafter/tools/registry.py.                                          *)
(*                                                                          *)
(* Tool names and argument keys are sequences of characters.  A text that   *)
(* is only reported is a sequence of pieces, each a character or a fixed    *)
(* phrase.                                                                  *)

UpperCase == << "A", "B", "C", "D", "E", "F", "G", "H", "I", "J", "K", "L", "M", "N", "O", "P", "Q", "R", "S", "T", "U", "V", "W", "X", "Y", "Z" >>
LowerCase == << "a", "b", "c", "d", "e", "f", "g", "h", "i", "j", "k", "l", "m", "n", "o", "p", "q", "r", "s", "t", "u", "v", "w", "x", "y", "z" >>

(* the characters of names, in the order sorted() compares them *)
CharOrder == UpperCase \o << "_" >> \o LowerCase

UpperSet == { UpperCase[i] : i \in 1..Len(UpperCase) }

IsUpper(c) == c \in UpperSet

LowerOf ==
    [c \in UpperSet |-> LowerCase[CHOOSE i \in 1..Len(UpperCase) : UpperCase[i] = c]]

lower_char(c) == IF IsUpper(c) THEN LowerOf[c] ELSE c

(* str.lower *)
lower(s) == [i \in 1..Len(s) |-> lower_char(s[i])]

(* re.sub(r'(?<!^)(?<!_)([A-Z])', r'_\1', s), from position i on *)
RECURSIVE UnderscoreBeforeUpper(_, _)
UnderscoreBeforeUpper(s, i) ==
    IF i > Len(s) THEN << >>
    ELSE (IF IsUpper(s[i]) /\ i > 1 /\ s[i - 1] # "_"
          THEN << "_", s[i] >> ELSE << s[i] >>)
         \o UnderscoreBeforeUpper(s, i + 1)

(* re.sub(r'_+', '_', s), from position i on *)
RECURSIVE CollapseUnderscores(_, _)
CollapseUnderscores(s, i) ==
    IF i > Len(s) THEN << >>
    ELSE (IF s[i] = "_" /\ i > 1 /\ s[i - 1] = "_" THEN << >> ELSE << s[i] >>)
         \o CollapseUnderscores(s, i + 1)

(* s.strip('_') *)
StripUnderscores(s) ==
    LET kept == { i \in 1..Len(s) : s[i] # "_" } IN
        IF kept = { } THEN << >>
        ELSE SubSeq(s, CHOOSE i \in kept : \A j \in kept : i <= j,
                       CHOOSE i \in kept : \A j \in kept : i >= j)

(* registry.py 40-67 *)
_normalize_tool_name(name) ==
    StripUnderscores(CollapseUnderscores(lower(UnderscoreBeforeUpper(name, 1)), 1))

(* registry.py 13-37 *)
PARAMETER_ALIASES ==
    {
      << << "f", "i", "l", "e", "P", "a", "t", "h" >>,
         << "f", "i", "l", "e", "_", "p", "a", "t", "h" >> >>,
      << << "f", "i", "l", "e", "N", "a", "m", "e" >>,
         << "f", "i", "l", "e", "_", "n", "a", "m", "e" >> >>,
      << << "d", "i", "r", "P", "a", "t", "h" >>,
         << "d", "i", "r", "_", "p", "a", "t", "h" >> >>,
      << << "o", "l", "d", "S", "t", "r", "i", "n", "g" >>,
         << "o", "l", "d", "_", "s", "t", "r", "i", "n", "g" >> >>,
      << << "n", "e", "w", "S", "t", "r", "i", "n", "g" >>,
         << "n", "e", "w", "_", "s", "t", "r", "i", "n", "g" >> >>,
      << << "s", "t", "a", "r", "t", "L", "i", "n", "e" >>,
         << "s", "t", "a", "r", "t", "_", "l", "i", "n", "e" >> >>,
      << << "e", "n", "d", "L", "i", "n", "e" >>,
         << "e", "n", "d", "_", "l", "i", "n", "e" >> >>,
      << << "m", "a", "x", "D", "e", "p", "t", "h" >>,
         << "m", "a", "x", "_", "d", "e", "p", "t", "h" >> >>,
      << << "i", "n", "c", "l", "u", "d", "e", "C", "o", "n", "t", "e", "n", "t", "s" >>,
         << "i", "n", "c", "l", "u", "d", "e", "_", "c", "o", "n", "t", "e", "n", "t", "s" >> >>,
      << << "w", "o", "r", "k", "i", "n", "g", "D", "i", "r" >>,
         << "w", "o", "r", "k", "i", "n", "g", "_", "d", "i", "r" >> >>,
      << << "r", "e", "p", "l", "a", "c", "e", "A", "l", "l" >>,
         << "r", "e", "p", "l", "a", "c", "e", "_", "a", "l", "l" >> >>,
      << << "p", "a", "t", "h" >>,
         << "f", "i", "l", "e", "_", "p", "a", "t", "h" >> >>,
      << << "f", "i", "l", "e", "p", "a", "t", "h" >>,
         << "f", "i", "l", "e", "_", "p", "a", "t", "h" >> >>,
      << << "f", "i", "l", "e", "n", "a", "m", "e" >>,
         << "f", "i", "l", "e", "_", "n", "a", "m", "e" >> >>,
      << << "d", "i", "r", "e", "c", "t", "o", "r", "y" >>,
         << "d", "i", "r", "_", "p", "a", "t", "h" >> >>,
      << << "o", "l", "d" >>,
         << "o", "l", "d", "_", "s", "t", "r", "i", "n", "g" >> >>,
      << << "n", "e", "w" >>,
         << "n", "e", "w", "_", "s", "t", "r", "i", "n", "g" >> >>,
      << << "s", "e", "a", "r", "c", "h" >>,
         << "p", "a", "t", "t", "e", "r", "n" >> >>,
      << << "q", "u", "e", "r", "y" >>,
         << "p", "a", "t", "t", "e", "r", "n" >> >>,
      << << "c", "m", "d" >>,
         << "c", "o", "m", "m", "a", "n", "d" >> >>
    }

(* PARAMETER_ALIASES.get(key) *)
AliasGet(key) ==
    IF \E a \in PARAMETER_ALIASES : a[1] = key
    THEN Some((CHOOSE a \in PARAMETER_ALIASES : a[1] = key)[2])
    ELSE None

(* a dict is the sequence of its << key, value >> items in insertion order *)
DictKeys(d) == { d[i][1] : i \in 1..Len(d) }

DictGet(d, key) == d[CHOOSE i \in 1..Len(d) : d[i][1] = key][2]

(* d[key] = value *)
DictSet(d, key, value) ==
    IF key \in DictKeys(d)
    THEN [i \in 1..Len(d) |-> IF d[i][1] = key THEN << key, value >> ELSE d[i]]
    ELSE Append(d, << key, value >>)

(* registry.py 84-96: the canonical key of one key *)
CanonicalKey(key) ==
    IF AliasGet(key) # None THEN AliasGet(key)[1]
    ELSE IF AliasGet(lower(key)) # None THEN AliasGet(lower(key))[1]
    ELSE lower(UnderscoreBeforeUpper(key, 1))

(* registry.py 70-98, keeping every key as it came *)
_normalize_arguments_keeping_keys(arguments) == arguments

(* registry.py 70-98 *)
RECURSIVE _normalize_arguments(_)
_normalize_arguments(arguments) ==
    IF arguments = << >> THEN << >>
    ELSE LET n == Len(arguments) IN
         DictSet(_normalize_arguments(SubSeq(arguments, 1, n - 1)),
                 CanonicalKey(arguments[n][1]), arguments[n][2])

N_write_file == << "w", "r", "i", "t", "e", "_", "f", "i", "l", "e" >>
N_WriteFile == << "W", "r", "i", "t", "e", "F", "i", "l", "e" >>
N_Write_File == << "W", "r", "i", "t", "e", "_", "F", "i", "l", "e" >>
N_WRITE_FILE == << "W", "R", "I", "T", "E", "_", "F", "I", "L", "E" >>
N_ReadFile == << "R", "e", "a", "d", "F", "i", "l", "e" >>
N_read_file == << "r", "e", "a", "d", "_", "f", "i", "l", "e" >>
N_explode == << "e", "x", "p", "l", "o", "d", "e" >>
N_lookup == << "l", "o", "o", "k", "u", "p" >>
N_missing == << "m", "i", "s", "s", "i", "n", "g" >>
N_file_path == << "f", "i", "l", "e", "_", "p", "a", "t", "h" >>
N_filePath == << "f", "i", "l", "e", "P", "a", "t", "h" >>
N_content == << "c", "o", "n", "t", "e", "n", "t" >>
N_path == << "p", "a", "t", "h" >>
N_FILEPATH == << "F", "I", "L", "E", "P", "A", "T", "H" >>
N_maxDepth == << "m", "a", "x", "D", "e", "p", "t", "h" >>
N_max_depth == << "m", "a", "x", "_", "d", "e", "p", "t", "h" >>
N_list_directory == << "l", "i", "s", "t", "_", "d", "i", "r", "e", "c", "t", "o", "r", "y" >>
N_ListDirectory == << "L", "i", "s", "t", "D", "i", "r", "e", "c", "t", "o", "r", "y" >>
N_search_files == << "s", "e", "a", "r", "c", "h", "_", "f", "i", "l", "e", "s" >>
N_dir_path == << "d", "i", "r", "_", "p", "a", "t", "h" >>
N_dirPath == << "d", "i", "r", "P", "a", "t", "h" >>
N_directory == << "d", "i", "r", "e", "c", "t", "o", "r", "y" >>
N_pattern == << "p", "a", "t", "t", "e", "r", "n" >>

(* providers/base.py: ToolDefinition; the handler is given by the keyword   *)
(* arguments it requires, whether it takes others, and what it does         *)
ToolDefinition(name, handler, required, takes_others, outcome) ==
    [name |-> name, handler |-> handler, required |-> required,
     takes_others |-> takes_others, outcome |-> outcome]

(* filesystem.py 605-609: the handler of write_file, taking file_path, content and any others *)
WriteFileTool ==
    ToolDefinition(N_write_file, "write_file_handler", { N_file_path, N_content },
                   TRUE, "map")

(* a later registration under the same name, whose handler reports failure *)
WriteFileDenying ==
    ToolDefinition(N_write_file, "denying_handler", { N_file_path }, TRUE, "error_map")

(* a tool registered under a name that is not in canonical form *)
ReadFileTool ==
    ToolDefinition(N_ReadFile, "read_handler", { N_file_path }, FALSE, "text")

(* a tool whose handler raises *)
ExplodeTool == ToolDefinition(N_explode, "exploding_handler", { }, TRUE, "raises")

(* a tool whose handler takes the call and raises a TypeError in its body *)
TypeErrorTool ==
    ToolDefinition(N_explode, "type_error_handler", { }, TRUE, "raises TypeError")

(* filesystem.py 624-628: the handler of list_directory, taking *)
(* dir_path = ".", max_depth and any others                     *)
ListDirectoryTool ==
    ToolDefinition(N_list_directory, "list_directory_handler", { }, TRUE,
                   "lists dir_path")

(* filesystem.py 638-642: the handler of search_files, taking pattern, *)
(* dir_path = ".", include_contents and any others                     *)
SearchFilesTool ==
    ToolDefinition(N_search_files, "search_files_handler", { N_pattern }, TRUE,
                   "lists dir_path")

DirectoryTools == { ListDirectoryTool, SearchFilesTool }

(* the argument keys a call names the directory with, and the directories *)
DirectoryKeys == { N_path, N_dir_path, N_dirPath, N_directory }

Directories == { "sub", "/tmp", ".." }

DirectoryCalls ==
    { ToolCall("call_3", name, << << N_pattern, "x" >>, << key, dir >> >>) :
        name \in { N_list_directory, N_ListDirectory, N_search_files },
        key \in DirectoryKeys, dir \in Directories }
    \cup { ToolCall("call_3", name, << << N_pattern, "x" >> >>) :
             name \in { N_list_directory, N_ListDirectory, N_search_files } }

ToolDefinitions ==
    { WriteFileTool, WriteFileDenying, ReadFileTool, ExplodeTool, TypeErrorTool }

ArgsCanonical == << << N_file_path, "a" >>, << N_content, "x" >> >>
ArgsCamel == << << N_filePath, "a" >>, << N_content, "x" >> >>
ArgsPath == << << N_content, "x" >>, << N_path, "a" >> >>
ArgsUpper == << << N_FILEPATH, "a" >> >>
ArgsDepth == << << N_filePath, "a" >>, << N_maxDepth, "3" >> >>
ArgsBoth == << << N_filePath, "a" >>, << N_path, "b" >> >>
ArgsNone == << >>

RegistryNames ==
    { N_write_file, N_WriteFile, N_Write_File, N_WRITE_FILE, N_ReadFile,
      N_read_file, N_explode, N_missing }

RegistryArguments ==
    { ArgsCanonical, ArgsCamel, ArgsPath, ArgsUpper, ArgsDepth, ArgsBoth, ArgsNone }

RegistryCalls ==
    { ToolCall("call_1", name, ArgsCanonical) : name \in RegistryNames }
    \cup { ToolCall("call_2", name, arguments) :
             name \in { N_write_file, N_WriteFile, N_ReadFile },
             arguments \in RegistryArguments }

(* what a handler hands back: a map (a dict) or some other value *)
HandlerValue(is_map, value) == [is_map |-> is_map, value |-> value]

(* the call of tool.handler with keyword arguments: the value returned, or *)
(* the exception raised                                                   *)
CallHandler(tool, kwargs) ==
    IF ~(tool.required \subseteq DictKeys(kwargs))
       \/ (~tool.takes_others /\ ~(DictKeys(kwargs) \subseteq tool.required))
    THEN [raised |-> "TypeError", entered |-> FALSE, value |-> HandlerValue(FALSE, << >>)]
    ELSE IF tool.outcome = "raises"
    THEN [raised |-> "Exception", entered |-> TRUE, value |-> HandlerValue(FALSE, << >>)]
    ELSE IF tool.outcome = "raises TypeError"
    THEN [raised |-> "TypeError", entered |-> TRUE, value |-> HandlerValue(FALSE, << >>)]
    ELSE IF tool.outcome = "lists dir_path"
    THEN [raised |-> "", entered |-> TRUE,
          value |-> HandlerValue(TRUE,
                      << << "status", << "SUCCESS" >> >>,
                         << "dir_path", IF N_dir_path \in DictKeys(kwargs)
                                        THEN DictGet(kwargs, N_dir_path)
                                        ELSE "." >> >>)]
    ELSE IF tool.outcome = "map"
    THEN [raised |-> "", entered |-> TRUE,
          value |-> HandlerValue(TRUE, << << "status", << "SUCCESS" >> >>,
                                          << "received", kwargs >> >>)]
    ELSE IF tool.outcome = "error_map"
    THEN [raised |-> "", entered |-> TRUE,
          value |-> HandlerValue(TRUE, << << "error", << "denied" >> >> >>)]
    ELSE [raised |-> "", entered |-> TRUE, value |-> HandlerValue(FALSE, << "done" >>)]

(* json.dumps(value) and str(value): the text of a value *)
json_dumps(value) == << "json.dumps", value >>
str(value) == << "str", value >>

(* registry.py 124-139, never flagging an error *)
_process_result_never_error(tool_call, result) ==
    ToolResult(tool_call.id, tool_call.name,
               IF result.is_map THEN json_dumps(result.value) ELSE str(result.value),
               FALSE)

(* registry.py 124-139 *)
_process_result(tool_call, result) ==
    ToolResult(tool_call.id, tool_call.name,
               IF result.is_map THEN json_dumps(result.value) ELSE str(result.value),
               IF result.is_map THEN "error" \in DictKeys(result.value) ELSE FALSE)

CodeOf ==
    [c \in { CharOrder[i] : i \in 1..Len(CharOrder) } |->
        CHOOSE i \in 1..Len(CharOrder) : CharOrder[i] = c]

Code(c) == CodeOf[c]

(* a < b for str *)
RECURSIVE StrLess(_, _)
StrLess(a, b) ==
    IF b = << >> THEN FALSE
    ELSE IF a = << >> THEN TRUE
    ELSE IF a[1] = b[1] THEN StrLess(Tail(a), Tail(b))
    ELSE Code(a[1]) < Code(b[1])

(* sorted(names) *)
RECURSIVE sorted(_)
sorted(names) ==
    IF names = { } THEN << >>
    ELSE LET first == CHOOSE x \in names : \A y \in names \ { x } : StrLess(x, y)
         IN  << first >> \o sorted(names \ { first })

(* ", ".join(strs) *)
RECURSIVE join(_)
join(strs) ==
    IF strs = << >> THEN << >>
    ELSE IF Len(strs) = 1 THEN strs[1]
    ELSE strs[1] \o << ", " >> \o join(Tail(strs))

(* registry.py 208, listing the first name only *)
AvailableFirstOnly(tools) ==
    IF DOMAIN tools = { } THEN << >> ELSE sorted(DOMAIN tools)[1]

(* registry.py 208: ", ".join(sorted(self._tools.keys())) *)
Available(tools) == join(sorted(DOMAIN tools))

(* registry.py 206-217 *)
UnknownToolResult(tools, tool_call, normalized_name) ==
    ToolResult(tool_call.id, tool_call.name,
               json_dumps(<< << "error",
                    << "Unknown tool: '" >> \o tool_call.name
                    \o << "' (normalized: '" >> \o normalized_name
                    \o << "'). Available tools: " >> \o Available(tools) >> >>),
               TRUE)

(* registry.py 231-241 *)
InvalidArgumentsResult(tool_call) ==
    ToolResult(tool_call.id, tool_call.name,
               json_dumps(<< << "error", << "Invalid arguments for '" >> \o tool_call.name >>,
                             << "provided_arguments",
                                [i \in 1..Len(tool_call.arguments) |->
                                    tool_call.arguments[i][1]] >>,
                             << "hint", << "Check parameter names" >> >> >>),
               TRUE)

(* registry.py 242-248 *)
ExecutionFailedResult(tool_call) ==
    ToolResult(tool_call.id, tool_call.name,
               json_dumps(<< << "error", << "Tool execution failed: ", "boom" >> >> >>), TRUE)

NoHandler == [handler |-> "", kwargs |-> << >>]

(* registry.py 187-248: ToolRegistry.execute_async; the result, and the     *)
(* handler that was entered with its keyword arguments, if one was          *)
ToolRegistry_execute_async(tools, tool_call) ==
    LET normalized_name == _normalize_tool_name(tool_call.name)
        found == IF normalized_name \in DOMAIN tools THEN Some(tools[normalized_name])
                 ELSE IF tool_call.name \in DOMAIN tools THEN Some(tools[tool_call.name])
                 ELSE None
    IN  IF found = None
        THEN [result |-> UnknownToolResult(tools, tool_call, normalized_name),
              entered |-> FALSE, invoked |-> NoHandler, raised |-> "",
              returned |-> None]
        ELSE LET tool == found[1]
                 normalized_args == _normalize_arguments(tool_call.arguments)
                 out == CallHandler(tool, normalized_args)
                 invoked == IF out.entered
                            THEN [handler |-> tool.handler, kwargs |-> normalized_args]
                            ELSE NoHandler
             IN  [result |-> IF out.raised = "TypeError" THEN InvalidArgumentsResult(tool_call)
                             ELSE IF out.raised = "Exception"
                             THEN ExecutionFailedResult(tool_call)
                             ELSE _process_result(tool_call, out.value),
                  entered |-> out.entered, invoked |-> invoked, raised |-> out.raised,
                  returned |-> IF out.raised = "" THEN Some(out.value) ELSE None]

(* registry.py 104-105: ToolRegistry.__init__ *)
RegistryInit ==
    /\ _tools = << >>
    /\ dispatched = None

(* registry.py 107-109: ToolRegistry.register *)
Register ==
    /\ \E tool \in ToolDefinitions :
          _tools' = [n \in DOMAIN _tools \cup { tool.name } |->
                        IF n = tool.name THEN tool ELSE _tools[n]]
    /\ UNCHANGED dispatched
    /\ UNCHANGED nonRegistryVars

(* registry.py 187-248: one call of execute_async *)
ExecuteAsync ==
    /\ \E tool_call \in RegistryCalls :
          LET done == ToolRegistry_execute_async(_tools, tool_call) IN
              dispatched' = Some([tools |-> _tools, call |-> tool_call,
                                  result |-> done.result, entered |-> done.entered,
                                  invoked |-> done.invoked, raised |-> done.raised,
                                  returned |-> done.returned])
    /\ UNCHANGED _tools
    /\ UNCHANGED nonRegistryVars

(* get_file_tools: list_directory and search_files are registered *)
RegisterDirectoryTool ==
    /\ \E tool \in DirectoryTools :
          _tools' = [n \in DOMAIN _tools \cup { tool.name } |->
                        IF n = tool.name THEN tool ELSE _tools[n]]
    /\ UNCHANGED dispatched
    /\ UNCHANGED nonRegistryVars

(* registry.py 187-248: execute_async on a call that names a directory *)
CallDirectoryTool ==
    /\ \E tool_call \in DirectoryCalls :
          LET done == ToolRegistry_execute_async(_tools, tool_call) IN
              dispatched' = Some([tools |-> _tools, call |-> tool_call,
                                  result |-> done.result, entered |-> done.entered,
                                  invoked |-> done.invoked, raised |-> done.raised,
                                  returned |-> done.returned])
    /\ UNCHANGED _tools
    /\ UNCHANGED nonRegistryVars

NextDirectory == RegisterDirectoryTool \/ CallDirectoryTool

NextRegistry ==
    \/ Register
    \/ ExecuteAsync

----------------------------------------------------------------------------
(* code_crafter/tools/edit_strategies.py.                                   *)
(*                                                                          *)
(* A str is the sequence of its characters; positions count from 0 as in    *)
(* Python, and -1 stands for "not found".                                   *)

Whitespace == { " ", "\t", "\n", "\r" }

Min(a, b) == IF a <= b THEN a ELSE b

(* s[a:b] for a, b >= 0, of a str or a list *)
Slice(s, a, b) ==
    IF a >= Min(b, Len(s)) THEN << >> ELSE SubSeq(s, a + 1, Min(b, Len(s)))

(* s[a:] *)
From(s, a) == Slice(s, a, Len(s))

(* s.find(sub, i) *)
RECURSIVE find_from(_, _, _)
find_from(s, sub, i) ==
    IF i + Len(sub) > Len(s) THEN -1
    ELSE IF SubSeq(s, i + 1, i + Len(sub)) = sub THEN i
    ELSE find_from(s, sub, i + 1)

find(s, sub) == find_from(s, sub, 0)

(* s.rfind(sub, 0, end) for a one-character sub *)
RECURSIVE rfind_char(_, _, _)
rfind_char(s, c, end) ==
    IF end <= 0 THEN -1
    ELSE IF s[end] = c THEN end - 1
    ELSE rfind_char(s, c, end - 1)

RECURSIVE count_from(_, _, _)
count_from(s, sub, i) ==
    LET at == find_from(s, sub, i) IN
        IF at = -1 THEN 0 ELSE 1 + count_from(s, sub, at + Len(sub))

(* s.count(sub): the occurrences that do not overlap, from the left *)
count(s, sub) == IF sub = << >> THEN Len(s) + 1 ELSE count_from(s, sub, 0)

(* s.replace(sub, to), sub not empty *)
RECURSIVE replace(_, _, _)
replace(s, sub, to) ==
    LET at == find(s, sub) IN
        IF at = -1 THEN s
        ELSE Slice(s, 0, at) \o to \o replace(From(s, at + Len(sub)), sub, to)

(* text.split("\n") *)
RECURSIVE split_lines(_)
split_lines(text) ==
    LET at == find(text, << "\n" >>) IN
        IF at = -1 THEN << text >>
        ELSE << Slice(text, 0, at) >> \o split_lines(From(text, at + 1))

(* "\n".join(lines) *)
RECURSIVE join_lines(_)
join_lines(lines) ==
    IF lines = << >> THEN << >>
    ELSE IF Len(lines) = 1 THEN lines[1]
    ELSE lines[1] \o << "\n" >> \o join_lines(Tail(lines))

RECURSIVE rstrip(_)
rstrip(s) ==
    IF s # << >> /\ s[Len(s)] \in Whitespace THEN rstrip(SubSeq(s, 1, Len(s) - 1))
    ELSE s

RECURSIVE lstrip(_)
lstrip(s) == IF s # << >> /\ s[1] \in Whitespace THEN lstrip(Tail(s)) ELSE s

strip(s) == lstrip(rstrip(s))

(* s.rstrip("\n") *)
RECURSIVE rstrip_newlines(_)
rstrip_newlines(s) ==
    IF s # << >> /\ s[Len(s)] = "\n" THEN rstrip_newlines(SubSeq(s, 1, Len(s) - 1))
    ELSE s

isspace(s) == s # << >> /\ \A i \in 1..Len(s) : s[i] \in Whitespace

(* text.split(): the words between runs of whitespace *)
RECURSIVE split_words(_)
split_words(text) ==
    LET t == lstrip(text) IN
        IF t = << >> THEN << >>
        ELSE LET ends == { i \in 1..Len(t) : t[i] \in Whitespace }
                 stop == IF ends = { } THEN Len(t) + 1
                         ELSE CHOOSE i \in ends : \A j \in ends : i <= j
             IN  << SubSeq(t, 1, stop - 1) >> \o split_words(From(t, stop - 1))

(* " ".join(words) *)
RECURSIVE join_words(_)
join_words(words) ==
    IF words = << >> THEN << >>
    ELSE IF Len(words) = 1 THEN words[1]
    ELSE words[1] \o << " " >> \o join_words(Tail(words))

(* sum(len(line) + 1 for line in lines[:k]) *)
RECURSIVE LineOffset(_, _)
LineOffset(lines, k) ==
    IF k <= 0 \/ lines = << >> THEN 0
    ELSE Len(lines[1]) + 1 + LineOffset(Tail(lines), k - 1)

(* edit_strategies.py 16-24: MatchResult *)
MatchResult(success, start_pos, end_pos, matched_text, strategy_name) ==
    [success |-> success, start_pos |-> start_pos, end_pos |-> end_pos,
     matched_text |-> matched_text, strategy_name |-> strategy_name]

NoMatch(strategy_name) == MatchResult(FALSE, -1, -1, << >>, strategy_name)

(* edit_strategies.py 46-62: ExactMatchStrategy.find_match *)
ExactMatchStrategy(content, search) ==
    IF count(content, search) = 1
    THEN LET pos == find(content, search) IN
             MatchResult(TRUE, pos, pos + Len(search), search, "exact")
    ELSE NoMatch("exact")

(* a successful match of matched_text at start_pos *)
MatchedAt(start_pos, matched_text, strategy_name) ==
    MatchResult(TRUE, start_pos, start_pos + Len(matched_text), matched_text,
                strategy_name)

RstripEach(lines) == [i \in 1..Len(lines) |-> rstrip(lines[i])]

(* edit_strategies.py 74-75: trim_lines *)
trim_lines(text) == join_lines(RstripEach(split_lines(text)))

(* edit_strategies.py 90-115: the position in the original content and the *)
(* matched text, which is every line of the content from the line the      *)
(* match starts in to the line it ends in                                  *)
LineTrimmedMatch(original_lines, lines_before, offset_in_line, search_line_count) ==
    MatchedAt((IF lines_before = 0 THEN 0
               ELSE LineOffset(original_lines, lines_before)) + offset_in_line,
              join_lines(Slice(original_lines, lines_before,
                               lines_before + search_line_count + 1)),
              "line_trimmed")

LastLine(lines) == lines[Len(lines)]

(* edit_strategies.py 87-103; before is trimmed_content[:trimmed_pos] *)
LineTrimmedBefore(content, trimmed_search, before) ==
    LineTrimmedMatch(split_lines(content),
                     count(before, << "\n" >>),
                     Len(LastLine(split_lines(before))),
                     count(trimmed_search, << "\n" >>))

LineTrimmedIn(content, trimmed_content, trimmed_search) ==
    IF count(trimmed_content, trimmed_search) = 1
    THEN LineTrimmedBefore(content, trimmed_search,
                           Slice(trimmed_content, 0,
                                 find(trimmed_content, trimmed_search)))
    ELSE NoMatch("line_trimmed")

(* edit_strategies.py 65-117: LineTrimmedStrategy.find_match *)
LineTrimmedStrategy(content, search) ==
    LineTrimmedIn(content, trim_lines(content), trim_lines(search))

(* the stripped form of the first line that is not blank, or "" *)
RECURSIVE FirstAnchor(_)
FirstAnchor(lines) ==
    IF lines = << >> THEN << >>
    ELSE IF strip(lines[1]) # << >> THEN strip(lines[1])
    ELSE FirstAnchor(Tail(lines))

(* the stripped form of the last line that is not blank, or "" *)
RECURSIVE LastAnchor(_)
LastAnchor(lines) ==
    IF lines = << >> THEN << >>
    ELSE IF strip(lines[Len(lines)]) # << >> THEN strip(lines[Len(lines)])
    ELSE LastAnchor(SubSeq(lines, 1, Len(lines) - 1))

Abs(n) == IF n < 0 THEN -n ELSE n

(* edit_strategies.py 152-155: the content lines equal to the first anchor *)
FirstMatches(content_lines, first_anchor) ==
    { i \in 0..(Len(content_lines) - 1) : strip(content_lines[i + 1]) = first_anchor }

(* edit_strategies.py 165-169: the end lines the loop accepts *)
BlockEnds(content_lines, last_anchor, start_line, expected_lines) ==
    { e \in (start_line + 1)..
            (Min(start_line + expected_lines + 5, Len(content_lines)) - 1) :
        /\ strip(content_lines[e + 1]) = last_anchor
        /\ Abs((e - start_line + 1) - expected_lines) <= 2 }

(* edit_strategies.py 171-181 *)
BlockMatch(content_lines, start_line, end_line) ==
    MatchResult(TRUE,
                LineOffset(content_lines, start_line),
                LineOffset(content_lines, end_line + 1),
                join_lines(Slice(content_lines, start_line, end_line + 1)),
                "block_anchor")

(* the loop returns at the first end line it accepts *)
BlockUpTo(content_lines, start_line, ends) ==
    IF ends = { } THEN NoMatch("block_anchor")
    ELSE BlockMatch(content_lines, start_line,
                    CHOOSE e \in ends : \A x \in ends : e <= x)

BlockAnchored(content_lines, search_lines, first_matches) ==
    IF Cardinality(first_matches) # 1 THEN NoMatch("block_anchor")
    ELSE BlockUpTo(content_lines,
                   CHOOSE i \in first_matches : TRUE,
                   BlockEnds(content_lines, LastAnchor(search_lines),
                             CHOOSE i \in first_matches : TRUE,
                             Len(search_lines)))

BlockAnchorIn(content_lines, search_lines) ==
    IF Len(search_lines) < 2 THEN NoMatch("block_anchor")
    ELSE IF FirstAnchor(search_lines) = << >> \/ LastAnchor(search_lines) = << >>
    THEN NoMatch("block_anchor")
    ELSE BlockAnchored(content_lines, search_lines,
                       FirstMatches(content_lines, FirstAnchor(search_lines)))

(* edit_strategies.py 120-183: BlockAnchorStrategy.find_match *)
BlockAnchorStrategy(content, search) ==
    BlockAnchorIn(split_lines(content), split_lines(search))

(* len(line) - len(line.lstrip()) *)
Indent(line) == Len(line) - Len(lstrip(line))

(* the least indent of the lines that are not blank; with no such line    *)
(* the text is returned as it is and the value is not used                *)
MinIndent(lines) ==
    IF \A i \in 1..Len(lines) : strip(lines[i]) = << >> THEN 0
    ELSE CHOOSE n \in 0..Len(join_lines(lines)) :
             /\ \E i \in 1..Len(lines) : strip(lines[i]) # << >> /\ Indent(lines[i]) = n
             /\ \A i \in 1..Len(lines) : strip(lines[i]) # << >> => n <= Indent(lines[i])

StripIndent(lines, min_indent) ==
    [i \in 1..Len(lines) |->
        IF strip(lines[i]) # << >> THEN From(lines[i], min_indent) ELSE << >>]

(* edit_strategies.py 195-213: strip_common_indent, the normalized text *)
strip_common_indent(text) ==
    IF \A i \in 1..Len(split_lines(text)) : strip(split_lines(text)[i]) = << >>
    THEN text
    ELSE join_lines(StripIndent(split_lines(text), MinIndent(split_lines(text))))

(* edit_strategies.py 226-239: the search lines match the content lines   *)
(* from line i on, each up to leading and trailing whitespace             *)
FullMatchAt(content_lines, search_lines, i) ==
    /\ strip(content_lines[i + 1]) = strip(search_lines[1])
    /\ i + Len(search_lines) <= Len(content_lines)
    /\ \A k \in 1..Len(search_lines) :
           strip(search_lines[k]) = strip(content_lines[i + k])

FullMatches(content_lines, search_lines) ==
    { i \in 0..(Len(content_lines) - 1) : FullMatchAt(content_lines, search_lines, i) }

(* edit_strategies.py 259-269: the result for the match at line i *)
IndentationMatchAt(content_lines, search_lines, i) ==
    MatchResult(TRUE,
                LineOffset(content_lines, i),
                LineOffset(content_lines, i)
                  + Len(join_lines(Slice(content_lines, i, i + Len(search_lines)))),
                join_lines(Slice(content_lines, i, i + Len(search_lines))),
                "indentation_flexible")

(* edit_strategies.py 225-269: the loop over the content lines returns at *)
(* the first full match that has no other full match, which exists when   *)
(* there is exactly one full match                                        *)
IndentationUnique(content_lines, search_lines, full_matches) ==
    IF Cardinality(full_matches) # 1 THEN NoMatch("indentation_flexible")
    ELSE IndentationMatchAt(content_lines, search_lines,
                            CHOOSE i \in full_matches : TRUE)

IndentationFlexibleIn(content_lines, search_lines) ==
    IF strip(search_lines[1]) = << >> THEN NoMatch("indentation_flexible")
    ELSE IndentationUnique(content_lines, search_lines,
                           FullMatches(content_lines, search_lines))

(* edit_strategies.py 186-271: IndentationFlexibleStrategy.find_match *)
IndentationFlexibleStrategy(content, search) ==
    IndentationFlexibleIn(split_lines(content),
                          split_lines(strip_common_indent(search)))

(* edit_strategies.py 283-292: normalize_escapes, six replacements in order *)
normalize_escapes(text) ==
    LET r1 == replace(text, << "\\", "n" >>, << "\n" >>)
        r2 == replace(r1, << "\\", "t" >>, << "\t" >>)
        r3 == replace(r2, << "\\", "r" >>, << "\r" >>)
        r4 == replace(r3, << "\\", "\"" >>, << "\"" >>)
        r5 == replace(r4, << "\\", "'" >>, << "'" >>)
    IN  replace(r5, << "\\", "\\" >>, << "\\" >>)

(* edit_strategies.py 274-312: EscapeNormalizedStrategy.find_match *)
EscapeNormalizedStrategy(content, search) ==
    LET normalized_search == normalize_escapes(search) IN
        IF normalized_search = search THEN NoMatch("escape_normalized")
        ELSE IF count(content, normalized_search) = 1
        THEN LET pos == find(content, normalized_search) IN
                 MatchResult(TRUE, pos, pos + Len(normalized_search),
                             normalized_search, "escape_normalized")
        ELSE NoMatch("escape_normalized")

(* edit_strategies.py 324-325: normalize *)
normalize(text) == join_words(split_words(text))

(* the positions at which a word of the content starts *)
WordStarts(content) ==
    { i \in 0..(Len(content) - 1) :
        /\ content[i + 1] \notin Whitespace
        /\ i = 0 \/ content[i] \in Whitespace }

(* edit_strategies.py 343-357: the walk through the content stops at the  *)
(* start of word number words_before + 1; original_pos stays 0 otherwise  *)
WordStart(word_starts, words_before) ==
    IF Cardinality(word_starts) <= words_before THEN 0
    ELSE CHOOSE i \in word_starts :
             Cardinality({ j \in word_starts : j < i }) = words_before

(* edit_strategies.py 336-366: the approximate start is found, the end is *)
(* left at -1 and no text is matched                                      *)
WhitespaceAt(content, norm_content, norm_pos) ==
    MatchResult(TRUE,
                WordStart(WordStarts(content),
                          count(Slice(norm_content, 0, norm_pos), << " " >>)),
                -1, << >>, "whitespace_normalized")

WhitespaceIn(content, norm_content, norm_search) ==
    IF norm_search = << >> THEN NoMatch("whitespace_normalized")
    ELSE IF count(norm_content, norm_search) = 1
    THEN WhitespaceAt(content, norm_content, find(norm_content, norm_search))
    ELSE NoMatch("whitespace_normalized")

(* edit_strategies.py 315-368: WhitespaceNormalizedStrategy.find_match *)
WhitespaceNormalizedStrategy(content, search) ==
    WhitespaceIn(content, normalize(content), normalize(search))

(* the first result if it succeeded, else the other *)
OrElse(result, other) == IF result.success THEN result ELSE other

(* edit_strategies.py 372-405: find_best_match over DEFAULT_STRATEGIES, the *)
(* first strategy that succeeds                                            *)
find_best_match(content, search) ==
    OrElse(ExactMatchStrategy(content, search),
    OrElse(LineTrimmedStrategy(content, search),
    OrElse(BlockAnchorStrategy(content, search),
    OrElse(IndentationFlexibleStrategy(content, search),
    OrElse(EscapeNormalizedStrategy(content, search),
    OrElse(WhitespaceNormalizedStrategy(content, search),
           MatchResult(FALSE, -1, -1, << >>, "none")))))))

Digits == << "0", "1", "2", "3", "4", "5", "6", "7", "8", "9" >>

(* str(n) of a natural number: its decimal digits *)
RECURSIVE str_int(_)
str_int(n) ==
    IF n < 10 THEN << Digits[n + 1] >>
    ELSE str_int(n \div 10) \o << Digits[(n % 10) + 1] >>

(* int(text) of a text of decimal digits *)
RECURSIVE int(_)
int(text) ==
    IF text = << >> THEN 0
    ELSE 10 * int(SubSeq(text, 1, Len(text) - 1))
         + ((CHOOSE d \in 1..10 : Digits[d] = text[Len(text)]) - 1)

(* the characters of a strategy name *)
StrategyChars(name) ==
    CASE name = "exact" -> << "e", "x", "a", "c", "t" >>
      [] name = "line_trimmed" ->
             << "l", "i", "n", "e", "_", "t", "r", "i", "m", "m", "e", "d" >>
      [] name = "block_anchor" ->
             << "b", "l", "o", "c", "k", "_", "a", "n", "c", "h", "o", "r" >>
      [] name = "indentation_flexible" ->
             << "i", "n", "d", "e", "n", "t", "a", "t", "i", "o", "n", "_",
                "f", "l", "e", "x", "i", "b", "l", "e" >>
      [] name = "escape_normalized" ->
             << "e", "s", "c", "a", "p", "e", "_", "n", "o", "r", "m", "a",
                "l", "i", "z", "e", "d" >>
      [] name = "whitespace_normalized" ->
             << "w", "h", "i", "t", "e", "s", "p", "a", "c", "e", "_", "n",
                "o", "r", "m", "a", "l", "i", "z", "e", "d" >>
      [] name = "none" -> << "n", "o", "n", "e" >>

ExactMultiplePrefix ==
    << "e", "x", "a", "c", "t", "_", "m", "u", "l", "t", "i", "p", "l", "e", "_" >>

SpliceDroppingSuffix(content, start, end, new_string) ==
    Slice(content, 0, start) \o new_string
(* content[:start] + new_string + content[end:] *)
Splice(content, start, end, new_string) ==
    Slice(content, 0, start) \o new_string \o From(content, end)

ApplyMatchKeepingContent(content, new_string, result) ==
    IF ~result.success
    THEN << FALSE, content, << "n", "o", "_", "m", "a", "t", "c", "h" >> >>
    ELSE << TRUE, content, StrategyChars(result.strategy_name) >>
(* edit_strategies.py 434-458: apply_edit on the result of the fallbacks *)
ApplyMatch(content, new_string, result) ==
    IF ~result.success
    THEN << FALSE, content, << "n", "o", "_", "m", "a", "t", "c", "h" >> >>
    ELSE IF result.matched_text # << >> /\ result.start_pos >= 0
    THEN << TRUE,
            Splice(content, result.start_pos,
                   result.start_pos + Len(result.matched_text), new_string),
            StrategyChars(result.strategy_name) >>
    ELSE IF result.start_pos >= 0 /\ result.end_pos >= 0
    THEN << TRUE,
            Splice(content, result.start_pos, result.end_pos, new_string),
            StrategyChars(result.strategy_name) >>
    ELSE << FALSE, content,
            StrategyChars(result.strategy_name)
              \o << "_", "i", "m", "p", "r", "e", "c", "i", "s", "e" >> >>

ApplyCountedFallingBack(content, old_string, new_string, n) ==
    IF n = 1
    THEN << TRUE,
            Splice(content, find(content, old_string),
                   find(content, old_string) + Len(old_string), new_string),
            StrategyChars("exact") >>
    ELSE ApplyMatch(content, new_string, find_best_match(content, old_string))
(* edit_strategies.py 424-432: apply_edit when old_string occurs n times;  *)
(* content.replace(old_string, new_string, 1) replaces the first one       *)
ApplyCounted(content, old_string, new_string, n) ==
    IF n = 1
    THEN << TRUE,
            Splice(content, find(content, old_string),
                   find(content, old_string) + Len(old_string), new_string),
            StrategyChars("exact") >>
    ELSE IF n > 1
    THEN << FALSE, content, ExactMultiplePrefix \o str_int(n) >>
    ELSE ApplyMatch(content, new_string, find_best_match(content, old_string))

(* edit_strategies.py 408-458: apply_edit, the triple                      *)
(* (success, new_content, strategy_used)                                   *)
apply_edit(content, old_string, new_string) ==
    ApplyCounted(content, old_string, new_string, count(content, old_string))

----------------------------------------------------------------------------
(* code_crafter/tools/filesystem.py: write_file and edit_file on one path.  *)
(* A result's text is the sequence of its pieces.                           *)

(* repr(text) of a text that holds no quote *)
RECURSIVE repr_chars(_)
repr_chars(text) ==
    IF text = << >> THEN << >>
    ELSE (CASE text[1] = "\n" -> << "\\", "n" >>
            [] text[1] = "\t" -> << "\\", "t" >>
            [] text[1] = "\r" -> << "\\", "r" >>
            [] text[1] = "\\" -> << "\\", "\\" >>
            [] OTHER -> << text[1] >>) \o repr_chars(Tail(text))

repr(text) == << "'" >> \o repr_chars(text) \o << "'" >>

(* text.startswith(prefix) *)
startswith(text, prefix) == Slice(text, 0, Len(prefix)) = prefix

(* text.split("_")[-1] *)
LastField(text) == From(text, rfind_char(text, "_", Len(text)) + 1)

(* filesystem.py 20-58: _validate_path raises OutsideWorkingDirectoryError *)
(* when the path is outside the working directory and not confirmed        *)
_validate_path_raises(is_dangerous, confirmed) == is_dangerous /\ ~confirmed

FileResult(status, error, matching_strategy) ==
    [status |-> status, error |-> error, matching_strategy |-> matching_strategy]

DeniedResult ==
    FileResult("DENIED", << "Access denied: path is outside working directory. " >>,
               << >>)

(* what a call returned, the apply_edit triple it computed if it came to   *)
(* that, the texts it wrote to the path, in order, and whether it removed  *)
(* the file                                                                *)
FileCall(result, applied, writes, unlinked) ==
    [result |-> result, applied |-> applied, writes |-> writes,
     unlinked |-> unlinked]

(* filesystem.py 135-170: write_file *)
write_file(content, is_dangerous, confirmed) ==
    IF _validate_path_raises(is_dangerous, confirmed)
    THEN FileCall(DeniedResult, None, << >>, FALSE)
    ELSE FileCall(FileResult("SUCCESS", << >>, << >>), None, << content >>, FALSE)

(* filesystem.py 430-469: delete_file; current is the file at the path *)
delete_file(current, is_dangerous, confirmed) ==
    IF _validate_path_raises(is_dangerous, confirmed)
    THEN FileCall(DeniedResult, None, << >>, FALSE)
    ELSE IF current = None
    THEN FileCall(FileResult("FAILED", << "File not found: ", "file_path" >>, << >>),
                  None, << >>, FALSE)
    ELSE FileCall(FileResult("SUCCESS", << >>, << >>), None, << >>, TRUE)

(* filesystem.py 232-250: the deletion of the whole line when only        *)
(* whitespace surrounds the match at pos on its line                      *)
DeleteLines(content, old_string, new_content, pos, line_start, line_end) ==
    IF ~(Slice(content, line_start, pos) = << >>
         \/ isspace(Slice(content, line_start, pos)))
    THEN new_content
    ELSE IF ~(rstrip_newlines(Slice(content, pos + Len(old_string), line_end)) = << >>
              \/ isspace(rstrip_newlines(Slice(content, pos + Len(old_string), line_end))))
    THEN new_content
    ELSE Slice(content, 0, line_start) \o From(content, line_end)

(* filesystem.py 240-244: the end of the line, its newline included *)
LineEnd(content, found_end) == IF found_end = -1 THEN Len(content) ELSE found_end + 1

DeleteAt(content, old_string, new_content, pos) ==
    IF pos = -1 THEN new_content
    ELSE DeleteLines(content, old_string, new_content, pos,
                     rfind_char(content, "\n", pos) + 1,
                     LineEnd(content,
                             find_from(content, << "\n" >>, pos + Len(old_string))))

(* filesystem.py 228-250 *)
DeleteWholeLines(content, old_string, new_content) ==
    DeleteAt(content, old_string, new_content, find(content, old_string))

(* filesystem.py 228-252: the text written after a successful apply_edit *)
TextToWrite(content, old_string, new_string, applied) ==
    IF new_string = << >> /\ applied[3] = StrategyChars("exact")
    THEN DeleteWholeLines(content, old_string, applied[2])
    ELSE applied[2]

(* a code point that utf-8 cannot encode, as json.loads gives for the *)
(* escape of a lone surrogate                                         *)
LoneSurrogate == "U+D800"

(* text.encode("utf-8") does not raise *)
encodable(text) == \A i \in 1..Len(text) : text[i] # LoneSurrogate

(* filesystem.py 252-284: path.write_text(new_content, encoding="utf-8")  *)
(* and the result. write_text opens the file for writing, which empties  *)
(* it, and then encodes the text: a text that cannot be encoded raises   *)
(* after the file was emptied, and edit_file returns the error           *)
WriteEdited(applied, text) ==
    IF encodable(text)
    THEN FileCall(
           FileResult("SUCCESS", << >>,
                      IF applied[3] # StrategyChars("exact") THEN applied[3] ELSE << >>),
           Some(applied), << text >>, FALSE)
    ELSE FileCall(
           FileResult("FAILED", << "Error editing file: ", "UnicodeEncodeError" >>,
                      << >>),
           Some(applied), << << >> >>, FALSE)

(* filesystem.py 210-284: edit_file after apply_edit returned applied *)
EditApplied(content, old_string, new_string, applied) ==
    IF ~applied[1]
    THEN IF startswith(applied[3], ExactMultiplePrefix)
         THEN FileCall(
                FileResult("FAILED",
                           << "String appears " >>
                             \o str_int(int(LastField(applied[3])))
                             \o << " times in file. Include more surrounding context to make it unique." >>,
                           << >>),
                Some(applied), << >>, FALSE)
         ELSE FileCall(
                FileResult("FAILED",
                           << "String not found in file (tried multiple matching strategies). Ensure whitespace matches exactly. Searched for: " >>
                             \o repr(old_string),
                           << >>),
                Some(applied), << >>, FALSE)
    ELSE WriteEdited(applied, TextToWrite(content, old_string, new_string, applied))

(* filesystem.py 173-284: edit_file; current is the file at the path *)
edit_file(current, old_string, new_string, is_dangerous, confirmed) ==
    IF _validate_path_raises(is_dangerous, confirmed)
    THEN FileCall(DeniedResult, None, << >>, FALSE)
    ELSE IF current = None
    THEN FileCall(FileResult("FAILED", << "File not found: ", "file_path" >>, << >>),
                  None, << >>, FALSE)
    ELSE EditApplied(current[1], old_string, new_string,
                     apply_edit(current[1], old_string, new_string))

(* The inputs: every text over the three characters up to the bounds, and  *)
(* a few longer ones that the later strategies of the cascade need.        *)
Chars == { "a", " ", "\n" }

Texts(n) == UNION { [1..k -> Chars] : k \in 0..n }

Contents ==
    Texts(MaxContent)
      \cup { << "a", "\n", " ", "\n", "b" >>, << "a", "\n", "b" >> }

OldStrings ==
    Texts(MaxOld)
      \cup { << "a", "\n", "b" >>, << "a", "\\", "n", "b" >>, << "a", " ", "a" >> }

NewStrings(old_string) == { << >>, << "b" >>, old_string }

FileInit ==
    /\ file = None
    /\ last_call = None

(* a call of a tool, with what it was given and the file it found *)
Called(tool, before, old_string, new_string, call) ==
    Some([tool |-> tool, before |-> before, old_string |-> old_string,
          new_string |-> new_string, result |-> call.result,
          applied |-> call.applied, writes |-> call.writes,
          unlinked |-> call.unlinked])

AfterCall(current, call) ==
    IF call.unlinked THEN None
    ELSE IF call.writes = << >> THEN current
    ELSE Some(call.writes[Len(call.writes)])

(* the confirmation is asked for only when the path is outside *)
Confirmations(is_dangerous) == IF is_dangerous THEN BOOLEAN ELSE { FALSE }

(* the call is recorded and the file is what the call left *)
Returned(tool, old_string, new_string, call) ==
    /\ file' = AfterCall(file, call)
    /\ last_call' = Called(tool, file, old_string, new_string, call)

(* write_file creating the file *)
WriteFile ==
    /\ file = None
    /\ \E content \in Contents, is_dangerous \in BOOLEAN :
          \E confirmed \in Confirmations(is_dangerous) :
              Returned("write_file", << >>, content,
                       write_file(content, is_dangerous, confirmed))
    /\ UNCHANGED nonFileVars

(* edit_file, once on each file written: a result of an edit is not edited *)
(* again before it is removed                                              *)
EditFile ==
    /\ IF last_call = None THEN TRUE ELSE last_call[1].tool # "edit_file"
    /\ IF file = None THEN TRUE ELSE file[1] \in Contents
    /\ \E old_string \in OldStrings, is_dangerous \in BOOLEAN :
          \E new_string \in NewStrings(old_string),
             confirmed \in Confirmations(is_dangerous) :
              Returned("edit_file", old_string, new_string,
                       edit_file(file, old_string, new_string,
                                 is_dangerous, confirmed))
    /\ UNCHANGED nonFileVars

DeleteFile ==
    /\ \E is_dangerous \in BOOLEAN :
          \E confirmed \in Confirmations(is_dangerous) :
              Returned("delete_file", << >>, << >>,
                       delete_file(file, is_dangerous, confirmed))
    /\ UNCHANGED nonFileVars

(* the new_string of a deletion, and one that holds a lone surrogate *)
NewTexts == { << >>, << LoneSurrogate >> }

(* edit_file with a new_string that may not be encodable *)
EditFileAnyText ==
    /\ IF last_call = None THEN TRUE ELSE last_call[1].tool # "edit_file"
    /\ IF file = None THEN TRUE ELSE file[1] \in Contents
    /\ \E old_string \in OldStrings, is_dangerous \in BOOLEAN :
          \E new_string \in NewTexts,
             confirmed \in Confirmations(is_dangerous) :
              Returned("edit_file", old_string, new_string,
                       edit_file(file, old_string, new_string,
                                 is_dangerous, confirmed))
    /\ UNCHANGED nonFileVars

NextFile == WriteFile \/ EditFile \/ DeleteFile

NextWrite == WriteFile \/ EditFileAnyText \/ DeleteFile

----------------------------------------------------------------------------
(* The safety gate (code_crafter/tools/safety.py) and the shell tool        *)
(* (code_crafter/tools/shell.py).                                           *)
(*                                                                          *)
(* A command, a path and a working directory are strs, each the sequence    *)
(* of its characters.  A compiled pattern is the sequence of its elements;  *)
(* re.IGNORECASE is on for every pattern of the two catalogs, so a literal  *)
(* is written in lower case and compared with the lowered text.             *)


Letters == { LowerCase[i] : i \in 1..26 }

(* \w, under lower_char() *)
WordChars == Letters \cup { Digits[i] : i \in 1..10 } \cup { "_" }

Lit(s) == [k |-> "lit", s |-> s]
B == [k |-> "b"]
Sp1 == [k |-> "s+"]
Sp0 == [k |-> "s*"]
AnyRun == [k |-> ".*"]
OneOf(cs) == [k |-> "set", cs |-> cs]
Alt(alts) == [k |-> "alt", alts |-> alts]
NotAhead(p) == [k |-> "not", p |-> p]

(* the character before position i, or after the last one, is no word *)
(* character                                                          *)
WordAt(s, i) == i >= 1 /\ i <= Len(s) /\ lower_char(s[i]) \in WordChars

LitAt(s, i, lit) ==
    /\ i + Len(lit) - 1 <= Len(s)
    /\ \A j \in 1..Len(lit) : lower_char(s[i + j - 1]) = lit[j]

(* the elements of p from the k-th on match s from its i-th character on *)
RECURSIVE Matches(_, _, _, _)
Matches(p, k, s, i) ==
    IF k > Len(p) THEN TRUE
    ELSE CASE p[k].k = "lit" ->
                 LitAt(s, i, p[k].s) /\ Matches(p, k + 1, s, i + Len(p[k].s))
           [] p[k].k = "b" ->
                 WordAt(s, i - 1) # WordAt(s, i) /\ Matches(p, k + 1, s, i)
           [] p[k].k = "s+" ->
                 \E j \in (i + 1)..(Len(s) + 1) :
                     /\ \A m \in i..(j - 1) : s[m] \in Whitespace
                     /\ Matches(p, k + 1, s, j)
           [] p[k].k = "s*" ->
                 \E j \in i..(Len(s) + 1) :
                     /\ \A m \in i..(j - 1) : s[m] \in Whitespace
                     /\ Matches(p, k + 1, s, j)
           [] p[k].k = ".*" ->
                 \E j \in i..(Len(s) + 1) :
                     /\ \A m \in i..(j - 1) : s[m] # "\n"
                     /\ Matches(p, k + 1, s, j)
           [] p[k].k = "set" ->
                 /\ i <= Len(s)
                 /\ lower_char(s[i]) \in p[k].cs
                 /\ Matches(p, k + 1, s, i + 1)
           [] p[k].k = "alt" ->
                 \E a \in p[k].alts :
                     LitAt(s, i, a) /\ Matches(p, k + 1, s, i + Len(a))
           [] p[k].k = "not" ->
                 ~Matches(p[k].p, 1, s, i) /\ Matches(p, k + 1, s, i)

(* pattern.search(s) *)
search(p, s) == \E i \in 1..(Len(s) + 1) : Matches(p, 1, s, i)

(* pattern.match(s) *)
match(p, s) == Matches(p, 1, s, 1)

(* shell.py 21-71 *)
DANGEROUS_COMMAND_PATTERNS == <<
    << << B, Lit(<< "r", "m" >>), Sp1 >>, "removes files/directories" >>,
    << << B, Lit(<< "r", "m" >>), B, AnyRun, Lit(<< "-" >>), AnyRun, Lit(<< "r" >>) >>,
       "recursively removes files/directories" >>,
    << << B, Lit(<< "r", "m", "d", "i", "r" >>), Sp1 >>, "removes directories" >>,
    << << B, Lit(<< "d", "e", "l" >>), Sp1 >>, "deletes files (Windows)" >>,
    << << B, Lit(<< "r", "d" >>), Sp1 >>, "removes directories (Windows)" >>,
    << << B, Lit(<< "r", "d" >>), B, AnyRun, Lit(<< "/", "s" >>) >>,
       "recursively removes directories (Windows)" >>,
    << << B, Lit(<< "m", "k", "f", "s" >>), B >>, "formats filesystem" >>,
    << << B, Lit(<< "f", "d", "i", "s", "k" >>), B >>, "modifies disk partitions" >>,
    << << B, Lit(<< "d", "d" >>), Sp1 >>, "low-level disk copy (can overwrite data)" >>,
    << << B, Lit(<< "f", "o", "r", "m", "a", "t" >>), Sp1 >>, "formats drive (Windows)" >>,
    << << B, Lit(<< "c", "h", "m", "o", "d" >>), Sp1, AnyRun, Lit(<< "7", "7", "7" >>) >>,
       "sets world-writable permissions" >>,
    << << B, Lit(<< "c", "h", "o", "w", "n" >>), Sp1 >>, "changes file ownership" >>,
    << << B, Lit(<< "s", "u", "d", "o" >>), Sp1 >>, "runs with elevated privileges" >>,
    << << B, Lit(<< "s", "u" >>), Sp1 >>, "switches user" >>,
    << << Lit(<< ">" >>), Sp0, Lit(<< "/", "d", "e", "v", "/", "s", "d" >>), OneOf(Letters) >>,
       "writes directly to disk device" >>,
    << << B, Lit(<< "m", "v" >>), Sp1, AnyRun, Sp1, Lit(<< "/", "d", "e", "v", "/", "n", "u", "l", "l" >>) >>,
       "moves files to /dev/null" >>,
    << << B, Lit(<< "c", "u", "r", "l" >>), B, AnyRun, Lit(<< "|" >>), Sp0, Alt({ << "b", "a" >>, << >> }),
          Lit(<< "s", "h" >>) >>, "pipes remote content to shell" >>,
    << << B, Lit(<< "w", "g", "e", "t" >>), B, AnyRun, Lit(<< "|" >>), Sp0, Alt({ << "b", "a" >>, << >> }),
          Lit(<< "s", "h" >>) >>, "pipes remote content to shell" >>,
    << << B, Lit(<< "g", "i", "t" >>), Sp1, Lit(<< "p", "u", "s", "h" >>), B, AnyRun, Lit(<< "-", "-", "f", "o", "r", "c", "e" >>) >>,
       "force pushes (can overwrite history)" >>,
    << << B, Lit(<< "g", "i", "t" >>), Sp1, Lit(<< "p", "u", "s", "h" >>), B, AnyRun, Lit(<< "-", "f" >>), B >>,
       "force pushes (can overwrite history)" >>,
    << << B, Lit(<< "g", "i", "t" >>), Sp1, Lit(<< "r", "e", "s", "e", "t" >>), B, AnyRun, Lit(<< "-", "-", "h", "a", "r", "d" >>) >>,
       "hard reset (discards changes)" >>,
    << << B, Lit(<< "g", "i", "t" >>), Sp1, Lit(<< "c", "l", "e", "a", "n" >>), B, AnyRun, Lit(<< "-", "f", "d" >>) >>,
       "removes untracked files and directories" >>,
    << << B, Lit(<< "d", "r", "o", "p" >>), Sp1,
          Alt({ << "d", "a", "t", "a", "b", "a", "s", "e" >>, << "t", "a", "b", "l", "e" >>, << "s", "c", "h", "e", "m", "a" >> }), B >>,
       "drops database objects" >>,
    << << B, Lit(<< "t", "r", "u", "n", "c", "a", "t", "e" >>), Sp1 >>, "truncates table data" >>,
    << << B, Lit(<< "d", "e", "l", "e", "t", "e" >>), Sp1, Lit(<< "f", "r", "o", "m" >>), B,
          NotAhead(<< AnyRun, Lit(<< "w", "h", "e", "r", "e" >>) >>) >>,
       "deletes all rows (no WHERE clause)" >>,
    << << B, Lit(<< "k", "i", "l", "l" >>), Sp1, Lit(<< "-", "9" >>), Sp1 >>, "force kills process" >>,
    << << B, Lit(<< "k", "i", "l", "l", "a", "l", "l" >>), Sp1 >>, "kills processes by name" >>,
    << << B, Lit(<< "p", "k", "i", "l", "l" >>), Sp1 >>, "kills processes by pattern" >>,
    << << B, Lit(<< "t", "a", "s", "k", "k", "i", "l", "l" >>), Sp1 >>, "kills processes (Windows)" >>,
    << << B, Lit(<< "s", "h", "u", "t", "d", "o", "w", "n" >>), B >>, "shuts down system" >>,
    << << B, Lit(<< "r", "e", "b", "o", "o", "t" >>), B >>, "reboots system" >>,
    << << B, Lit(<< "i", "n", "i", "t" >>), Sp1, OneOf({ "0", "6" }), B >>,
       "changes runlevel (shutdown/reboot)" >> >>

(* shell.py 92-107; each pattern starts with ^ and is used with match() *)
SAFE_OUTSIDE_PATH_COMMANDS == <<
    << Sp0, Lit(<< "c", "d" >>), Sp1 >>,
    << Sp0, Lit(<< "e", "c", "h", "o" >>), Sp1 >>,
    << Sp0, Lit(<< "w", "h", "i", "c", "h" >>), Sp1 >>,
    << Sp0, Lit(<< "w", "h", "e", "r", "e" >>), Sp1 >>,
    << Sp0, Lit(<< "t", "y", "p", "e" >>), Sp1 >>,
    << Sp0, Lit(<< "g", "i", "t" >>), Sp1, Lit(<< "c", "l", "o", "n", "e" >>), Sp1 >>,
    << Sp0, Lit(<< "g", "i", "t" >>), Sp1, Lit(<< "r", "e", "m", "o", "t", "e" >>), Sp1 >>,
    << Sp0, Lit(<< "g", "i", "t" >>), Sp1, Lit(<< "f", "e", "t", "c", "h" >>), Sp1 >>,
    << Sp0, Lit(<< "g", "i", "t" >>), Sp1, Lit(<< "p", "u", "l", "l" >>), Sp1 >>,
    << Sp0, Lit(<< "g", "i", "t" >>), Sp1, Lit(<< "p", "u", "s", "h" >>), Sp1 >>,
    << Sp0, Lit(<< "p", "i", "p" >>), Sp1, Lit(<< "i", "n", "s", "t", "a", "l", "l" >>), Sp1 >>,
    << Sp0, Lit(<< "n", "p", "m" >>), Sp1, Lit(<< "i", "n", "s", "t", "a", "l", "l" >>), Sp1 >>,
    << Sp0, Lit(<< "y", "a", "r", "n" >>), Sp1, Lit(<< "a", "d", "d" >>), Sp1 >>,
    << Sp0, Lit(<< "c", "a", "r", "g", "o" >>), Sp1 >> >>

(* shell.py 110-115 *)
_is_safe_outside_path_command(command) ==
    \E n \in 1..Len(SAFE_OUTSIDE_PATH_COMMANDS) :
        match(SAFE_OUTSIDE_PATH_COMMANDS[n], command)

(* the character class [a-zA-Z0-9_\-./\\] of the path patterns *)
PathChars == WordChars \cup { "-", ".", "/", "\\" }

(* what (?:^|\s|["\']) lets a path token follow *)
PathLead == Whitespace \cup { "\"", "'" }

(* shell.py 74-89: the fixed head of group 1, its length, and the least *)
(* number of class characters after it                                  *)
PATH_EXTRACTION_PATTERNS == <<
    << << Lit(<< "/" >>) >>, 1, 1 >>,
    << << Lit(<< "~" >>) >>, 1, 0 >>,
    << << Lit(<< ".", "." >>), OneOf({ "/", "\\" }) >>, 3, 0 >>,
    << << OneOf(Letters), Lit(<< ":" >>), OneOf({ "/", "\\" }) >>, 3, 0 >>,
    << << Lit(<< "\\", "\\" >>) >>, 2, 1 >> >>

(* where the longest run of class characters from position i ends *)
RECURSIVE RunEnd(_, _)
RunEnd(s, i) ==
    IF i <= Len(s) /\ lower_char(s[i]) \in PathChars THEN RunEnd(s, i + 1) ELSE i

GroupAt(row, s, i) ==
    Matches(row[1], 1, s, i) /\ RunEnd(s, i + row[2]) - (i + row[2]) >= row[3]

(* where group 1 starts when the pattern matches at pos, else 0 *)
GroupStart(row, s, pos) ==
    IF pos = 1 /\ GroupAt(row, s, 1) THEN 1
    ELSE IF pos <= Len(s) /\ s[pos] \in PathLead /\ GroupAt(row, s, pos + 1)
    THEN pos + 1
    ELSE 0

(* [m.group(1) for m in pattern.finditer(s)], from pos on *)
RECURSIVE finditer(_, _, _)
finditer(row, s, pos) ==
    IF pos > Len(s) + 1 THEN << >>
    ELSE IF GroupStart(row, s, pos) = 0 THEN finditer(row, s, pos + 1)
    ELSE << SubSeq(s, GroupStart(row, s, pos),
                   RunEnd(s, GroupStart(row, s, pos) + row[2]) - 1) >>
         \o finditer(row, s, RunEnd(s, GroupStart(row, s, pos) + row[2]))

(* the environment of the process: $HOME and the password database *)
HOME == << "/", "h", "o", "m", "e", "/", "u" >>

KnownUsers == { << "u" >> }

(* os.path.expanduser on POSIX *)
expanduser(path) ==
    IF ~startswith(path, << "~" >>) THEN path
    ELSE IF find_from(path, << "/" >>, 1) = 1 \/ Len(path) = 1
    THEN HOME \o From(path, 1)
    ELSE IF Slice(path, 1, IF find_from(path, << "/" >>, 1) = -1 THEN Len(path)
                           ELSE find_from(path, << "/" >>, 1)) \in KnownUsers
    THEN HOME \o From(path, IF find_from(path, << "/" >>, 1) = -1 THEN Len(path)
                            ELSE find_from(path, << "/" >>, 1))
    ELSE path

isabs(path) == startswith(path, << "/" >>)

(* os.path.join(a, b) on POSIX *)
os_path_join(a, b) ==
    IF isabs(b) THEN b
    ELSE IF a = << >> THEN b
    ELSE IF a[Len(a)] = "/" THEN a \o b
    ELSE a \o << "/" >> \o b

(* path.split("/") *)
RECURSIVE split_slash(_)
split_slash(path) ==
    IF find(path, << "/" >>) = -1 THEN << path >>
    ELSE << Slice(path, 0, find(path, << "/" >>)) >>
         \o split_slash(From(path, find(path, << "/" >>) + 1))

RECURSIVE join_slash(_)
join_slash(comps) ==
    IF comps = << >> THEN << >>
    ELSE IF Len(comps) = 1 THEN comps[1]
    ELSE comps[1] \o << "/" >> \o join_slash(Tail(comps))

(* posixpath.normpath: 0, 1 or 2 leading slashes are kept *)
initial_slashes(path) ==
    IF ~startswith(path, << "/" >>) THEN 0
    ELSE IF startswith(path, << "/", "/" >>) /\ ~startswith(path, << "/", "/", "/" >>) THEN 2
    ELSE 1

(* posixpath.normpath: the loop over comps from the k-th on *)
RECURSIVE new_comps(_, _, _, _)
new_comps(comps, k, acc, slashes) ==
    IF k > Len(comps) THEN acc
    ELSE IF comps[k] \in { << >>, << "." >> } THEN new_comps(comps, k + 1, acc, slashes)
    ELSE IF \/ comps[k] # << ".", "." >>
            \/ slashes = 0 /\ acc = << >>
            \/ acc # << >> /\ acc[Len(acc)] = << ".", "." >>
    THEN new_comps(comps, k + 1, Append(acc, comps[k]), slashes)
    ELSE IF acc # << >>
    THEN new_comps(comps, k + 1, SubSeq(acc, 1, Len(acc) - 1), slashes)
    ELSE new_comps(comps, k + 1, acc, slashes)

Slashes(n) == IF n = 0 THEN << >> ELSE IF n = 1 THEN << "/" >> ELSE << "/", "/" >>

OrDot(path) == IF path = << >> THEN << "." >> ELSE path

normpath(path) ==
    IF path = << >> THEN << "." >>
    ELSE OrDot(Slashes(initial_slashes(path))
               \o join_slash(new_comps(split_slash(path), 1, << >>,
                                       initial_slashes(path))))

(* os.path.abspath, the process being in directory cwd *)
abspath(path) ==
    normpath(IF isabs(path) THEN path ELSE os_path_join(cwd, path))

(* safety.py 42-45: resolved, for the path after expanduser *)
resolved_in(expanded, working_dir) ==
    normpath(IF isabs(expanded) THEN expanded
             ELSE os_path_join(working_dir, expanded))

(* safety.py 48-52 *)
InsideDirectory(expanded, working_dir) ==
    \/ startswith(resolved_in(expanded, working_dir),
                  abspath(working_dir) \o << "/" >>)
    \/ resolved_in(expanded, working_dir) = abspath(working_dir)

(* safety.py 26-55 *)
is_path_inside_directory(path, working_dir) ==
    InsideDirectory(expanduser(path), working_dir)

(* shell.py 136-142: the first path found that is not inside, as << path >>, *)
(* looking at the paths from the i-th on; None if all are inside            *)
RECURSIVE FirstOutsideOf(_, _, _)
FirstOutsideOf(paths, i, working_dir) ==
    IF i > Len(paths) THEN None
    ELSE IF ~is_path_inside_directory(paths[i], working_dir) THEN Some(paths[i])
    ELSE FirstOutsideOf(paths, i + 1, working_dir)

RECURSIVE AllPathsFound(_, _)
AllPathsFound(command, n) ==
    IF n > Len(PATH_EXTRACTION_PATTERNS) THEN << >>
    ELSE finditer(PATH_EXTRACTION_PATTERNS[n], command, 1)
         \o AllPathsFound(command, n + 1)

(* a result (flag, description); a description is a list of pieces of text *)
Flagged(description) == << TRUE, Some(description) >>

NotFlagged == << FALSE, None >>

OutsideResult(outside) ==
    IF outside = None THEN NotFlagged
    ELSE Flagged(<< "accesses path outside working directory: " >> \o outside[1])

(* shell.py 118-144; run_command always passes a working directory *)
_check_outside_directory(command, working_dir) ==
    IF _is_safe_outside_path_command(command) THEN NotFlagged
    ELSE OutsideResult(FirstOutsideOf(AllPathsFound(command, 1), 1, working_dir))

(* shell.py 158-160: the description of the first pattern that is found, *)
(* looking from the n-th on                                              *)
RECURSIVE FirstDangerous(_, _)
FirstDangerous(command, n) ==
    IF n > Len(DANGEROUS_COMMAND_PATTERNS) THEN None
    ELSE IF search(DANGEROUS_COMMAND_PATTERNS[n][1], command)
    THEN Some(<< DANGEROUS_COMMAND_PATTERNS[n][2] >>)
    ELSE FirstDangerous(command, n + 1)

(* the allowlist consulted before the catalog *)
CheckedAfterAllowlist(dangerous, command, working_dir) ==
    IF _is_safe_outside_path_command(command) THEN NotFlagged
    ELSE IF dangerous # None THEN Flagged(dangerous[1])
    ELSE _check_outside_directory(command, working_dir)
CheckedAfter(dangerous, command, working_dir) ==
    IF dangerous # None THEN Flagged(dangerous[1])
    ELSE _check_outside_directory(command, working_dir)

(* shell.py 147-167 *)
check_dangerous_command(command, working_dir) ==
    CheckedAfter(FirstDangerous(command, 1), command, working_dir)

(* what a confirmation callback does when it is called: the value it *)
(* returns, or that it raises                                         *)
Callbacks == { "returns True", "returns False", "returns 1", "returns 0", "raises" }

(* bool(callback(prompt)) for a callback that returns *)
TruthyCallbacks == { "returns True", "returns 1" }

(* a result (confirmed, error) and the callbacks the call invoked, each with *)
(* the prompt it was given                                                   *)
Gate(confirmed, error, invoked) ==
    [confirmed |-> confirmed, error |-> error, invoked |-> invoked]

(* a gate that takes a callback that raises for a consent *)
ConsultedRaisingConfirms(callback, prompt) ==
    IF callback \in TruthyCallbacks \cup { "raises" }
    THEN Gate(TRUE, None, << << callback, prompt >> >>)
    ELSE Gate(FALSE, Some("Denied by user"), << << callback, prompt >> >>)

(* safety.py 106-113 *)
Consulted(callback, prompt) ==
    IF callback = "raises"
    THEN Gate(FALSE, Some("Confirmation failed: error in callback"),
              << << callback, prompt >> >>)
    ELSE IF callback \in TruthyCallbacks THEN Gate(TRUE, None, << << callback, prompt >> >>)
    ELSE Gate(FALSE, Some("Denied by user"), << << callback, prompt >> >>)

(* safety.py 82-113 *)
confirm_dangerous_operation(prompt, auto_deny) ==
    IF _confirm_callback = None
    THEN IF auto_deny THEN Gate(FALSE, Some("No confirmation callback available"), << >>)
         ELSE Gate(TRUE, None, << >>)
    ELSE Consulted(_confirm_callback[1], prompt)

(* what became of the subprocess that was asked for *)
Outcomes == { "exit 0", "exit 1", "timed out", "shell not found" }

(* a result dict of run_command with the processes it asked for and the *)
(* callbacks it invoked                                                 *)
ShellResult(status, error, return_code, spawned, invoked) ==
    [status |-> status, error |-> error, return_code |-> return_code,
     spawned |-> spawned, invoked |-> invoked]

(* shell.py 203-263: create_subprocess_exec(bash, -c, command) in cwd, *)
(* and what is returned for each way it can end                        *)
Spawned(command, in_dir, outcome, invoked) ==
    IF outcome = "exit 0"
    THEN ShellResult("SUCCESS", None, 0, << << command, in_dir >> >>, invoked)
    ELSE IF outcome = "exit 1"
    THEN ShellResult("FAILED", Some(<< "Command exited with code 1" >>), 1,
                     << << command, in_dir >> >>, invoked)
    ELSE IF outcome = "timed out"
    THEN ShellResult("FAILED", Some(<< "Command timed out after 120.0 seconds" >>),
                     -1, << << command, in_dir >> >>, invoked)
    ELSE ShellResult("FAILED", Some(<< "Shell not found" >>), -1,
                     << << command, in_dir >> >>, invoked)

(* error or '' *)
OrEmpty(error) == IF error = None THEN << >> ELSE error

(* text.strip() of a text in pieces, no piece but the last being blank *)
StripPieces(pieces) ==
    IF pieces # << >> /\ pieces[Len(pieces)] \in { "", " " }
    THEN SubSeq(pieces, 1, Len(pieces) - 1)
    ELSE pieces

(* shell.py 192; the two warning signs around the title are left out *)
CommandPrompt(command, danger_description) ==
    << "DANGEROUS COMMAND DETECTED\n\nCommand: " >> \o command
    \o << "\nReason: " >> \o danger_description
    \o << "\n\nExecute this command?" >>

(* shell.py 195-201 *)
Blocked(danger_description, gate) ==
    ShellResult("DENIED",
                Some(StripPieces(<< "Command blocked: " >> \o danger_description
                                 \o << ". " >> \o OrEmpty(gate.error))),
                -1, << >>, gate.invoked)

(* run_command asking for the subprocess whatever the gate answered *)
RunCheckedWhateverTheGate(command, in_dir, checked, gate, outcome) ==
    IF ~checked[1] THEN Spawned(command, in_dir, outcome, << >>)
    ELSE Spawned(command, in_dir, outcome, gate.invoked)
(* shell.py 190-214 *)
RunChecked(command, in_dir, checked, gate, outcome) ==
    IF ~checked[1] THEN Spawned(command, in_dir, outcome, << >>)
    ELSE IF ~gate.confirmed THEN Blocked(checked[2][1], gate)
    ELSE Spawned(command, in_dir, outcome, gate.invoked)

RunIn(command, in_dir, checked, outcome) ==
    RunChecked(command, in_dir, checked,
               IF checked[1]
               THEN confirm_dangerous_operation(
                        CommandPrompt(command, checked[2][1]), TRUE)
               ELSE Gate(TRUE, None, << >>),
               outcome)

(* shell.py 170-263, on a platform that is not win32; outcome is how the *)
(* subprocess ends if one is asked for                                  *)
run_command(command, working_dir, outcome) ==
    RunIn(command,
          IF working_dir \in { None, Some(<< >>) } THEN cwd ELSE working_dir[1],
          check_dangerous_command(
              command,
              IF working_dir \in { None, Some(<< >>) } THEN cwd ELSE working_dir[1]),
          outcome)

(* the sandbox root of the model, and the directories the process may be in *)
Root == << "/", "w", "o", "r", "k" >>

ProcessCwds == { Root, << "/", "w", "o", "r", "k", "/", "s", "u", "b" >>, << "/", "t", "m", "p" >> }

WorkingDirs == { Root, << "/", "t", "m", "p" >> }

GateInit ==
    /\ _confirm_callback = None
    /\ gate_call = None

Tokens ==
    { << "r", "m" >>, << "R", "M" >>, << "f", "a", "r", "m" >>, << "-", "r", "f" >>, << "l", "s" >>, << "e", "c", "h", "o" >>,
      << "/" >>, << "/", "e", "t", "c" >>, << "/", "t", "m", "p", "/", "x" >>, << "/", "t", "m", "p", "x" >>,
      << "/", "w", "o", "r", "k", "/", "a" >>, << ".", ".", "/", "x" >>, << "a", "/", ".", ".", "/", ".", ".", "/", "x" >>, << "~" >>, << "'", "/", "e", "t", "c", "'" >>, << "x", ";", "s", "u", "d", "o" >> }

RECURSIVE TokenLists(_)
TokenLists(n) ==
    IF n = 0 THEN { << >> }
    ELSE TokenLists(n - 1)
         \cup { Append(l, t) : l \in TokenLists(n - 1), t \in Tokens }

RECURSIVE join_spaces(_)
join_spaces(words) ==
    IF words = << >> THEN << >>
    ELSE IF Len(words) = 1 THEN words[1]
    ELSE words[1] \o << " " >> \o join_spaces(Tail(words))

Commands ==
    { join_spaces(l) : l \in TokenLists(MaxTokens) }
    \cup { << "r", "m", " ", "-", "r", "f", " ", "/" >>,
           << "r", "m", " ", "-", "r", "f", " ", "/", "t", "m", "p", "/", "x" >>, << "g", "i", "t", " ", "p", "u", "s", "h", " ", "-", "-", "f", "o", "r", "c", "e" >>, << "g", "i", "t", " ", "p", "u", "s", "h", " ", "o", "r", "i", "g", "i", "n", " ", "-", "f" >>,
           << "g", "i", "t", " ", "c", "l", "o", "n", "e", " ", "h", "t", "t", "p", "s", ":", "/", "/", "h", "/", "r", " ", "/", "t", "m", "p", "/", "x" >>, << "e", "c", "h", "o", " ", "/", "e", "t", "c", "/", "p", "a", "s", "s", "w", "d" >>,
           << "d", "e", "l", "e", "t", "e", " ", "f", "r", "o", "m", " ", "t", " ", "w", "h", "e", "r", "e", " ", "a" >>, << "D", "E", "L", "E", "T", "E", " ", "F", "R", "O", "M", " ", "t" >>, << "c", "u", "r", "l", " ", "h", " ", "|", " ", "b", "a", "s", "h" >> }

(* the commands run_command is given *)
RunCommands ==
    { << "r", "m", " ", "-", "r", "f", " ", "/", "t", "m", "p", "/", "x" >>, << "l", "s" >>, << "l", "s", " ", "/", "e", "t", "c" >>, << "e", "c", "h", "o", " ", "/", "e", "t", "c", "/", "p", "a", "s", "s", "w", "d" >>,
      << "g", "i", "t", " ", "p", "u", "s", "h", " ", "-", "-", "f", "o", "r", "c", "e" >> }

(* no call is in progress and none has been made since the slot was set; *)
(* what a call does depends on nothing an earlier call did              *)
GateIdle ==
    IF gate_call = None THEN TRUE
    ELSE gate_call[1].op = "set_confirmation_callback"

(* safety.py 10-18 *)
SetConfirmationCallback ==
    /\ \E callback \in { None } \cup { Some(c) : c \in Callbacks } :
          /\ _confirm_callback' = callback
          /\ gate_call' = Some([op |-> "set_confirmation_callback",
                                callback |-> callback])
    /\ UNCHANGED << nonGateVars, cwd >>

(* a call of confirm_dangerous_operation *)
ConfirmDangerousOperation ==
    /\ \E auto_deny \in BOOLEAN :
          gate_call' = Some([op |-> "confirm_dangerous_operation",
                             auto_deny |-> auto_deny,
                             callback |-> _confirm_callback,
                             returned |-> confirm_dangerous_operation(
                                              << "Proceed?" >>, auto_deny)])
    /\ UNCHANGED << nonGateVars, cwd, _confirm_callback >>

(* a call of check_dangerous_command, which reads nothing but its arguments *)
CheckDangerousCommand ==
    /\ gate_call = None
    /\ \E command \in Commands, working_dir \in WorkingDirs :
          gate_call' = Some([op |-> "check_dangerous_command",
                             command |-> command, working_dir |-> working_dir,
                             returned |-> check_dangerous_command(command,
                                                                  working_dir)])
    /\ UNCHANGED << nonGateVars, cwd, _confirm_callback >>

(* a call of the run_command tool *)
RunCommand ==
    /\ GateIdle
    /\ \E command \in RunCommands, working_dir \in { None, Some(Root) },
          outcome \in Outcomes :
          gate_call' = Some([op |-> "run_command", command |-> command,
                             working_dir |-> working_dir,
                             callback |-> _confirm_callback,
                             returned |-> run_command(command, working_dir,
                                                      outcome)])
    /\ UNCHANGED << nonGateVars, cwd, _confirm_callback >>


----------------------------------------------------------------------------
(* The filesystem tools as far as the path they are given goes             *)
(* (code_crafter/tools/filesystem.py), on a file system without symbolic   *)
(* links.                                                                  *)

(* Path(path).resolve(): the path made absolute from the directory the *)
(* process is in, without ".", ".." and repeated slashes               *)
resolve(path) ==
    << "/" >> \o join_slash(new_comps(split_slash(os_path_join(cwd, path)), 1, << >>, 1))

(* path.parent of a resolved path *)
parent(path) ==
    IF rfind_char(path, "/", Len(path)) <= 0 THEN << "/" >>
    ELSE Slice(path, 0, rfind_char(path, "/", Len(path)))

(* safety.py 58-79, with a working directory given *)
check_path_safety(path, working_dir, operation) ==
    IF ~is_path_inside_directory(path, working_dir)
    THEN Flagged(<< "attempts to ", operation, " path outside working directory: " >>
                 \o path)
    ELSE NotFlagged

(* filesystem.py 43-50; the two warning signs around the title are left out *)
PathPrompt(path, root_dir, operation) ==
    << "OUTSIDE WORKING DIRECTORY\n\n", "Operation: ", operation, "\n", "Path: " >>
    \o path \o << "\n", "Resolved: " >> \o resolve(path)
    \o << "\n", "Working directory: " >> \o root_dir
    \o << "\n\n", "Allow this operation?" >>

(* what _validate_path did: whether it raised OutsideWorkingDirectoryError, *)
(* with which message, the path it returned otherwise, and the callbacks it *)
(* invoked                                                                  *)
Validated(raised, error, resolved, invoked) ==
    [raised |-> raised, error |-> error, resolved |-> resolved, invoked |-> invoked]

(* filesystem.py 51-58 *)
ValidatedBy(path, gate) ==
    IF _validate_path_raises(TRUE, gate.confirmed)
    THEN Validated(TRUE,
                   << "Access denied: " >> \o path
                   \o << " is outside working directory. " >> \o OrEmpty(gate.error),
                   None, gate.invoked)
    ELSE Validated(FALSE, << >>, Some(resolve(path)), gate.invoked)

(* filesystem.py 20-58 *)
_validate_path(path, root_dir, operation) ==
    IF root_dir \in { None, Some(<< >>) }
    THEN Validated(FALSE, << >>, Some(resolve(path)), << >>)
    ELSE IF ~check_path_safety(path, root_dir[1], operation)[1]
    THEN Validated(FALSE, << >>, Some(resolve(path)), << >>)
    ELSE ValidatedBy(path, confirm_dangerous_operation(
                               PathPrompt(path, root_dir[1], operation), TRUE))

FileTools ==
    { "read_file", "write_file", "edit_file", "delete_file", "list_directory",
      "search_files" }

(* the operation each tool names to _validate_path *)
Operation(tool) ==
    CASE tool = "read_file" -> "read"
      [] tool = "write_file" -> "write"
      [] tool = "edit_file" -> "edit"
      [] tool = "delete_file" -> "delete"
      [] tool = "list_directory" -> "list"
      [] tool = "search_files" -> "search"

(* what is at the resolved path: nothing, a directory, a file, or a file *)
(* in which edit_file finds its old_string                               *)
Found == { "missing", "dir", "file", "file with old_string" }

IsFile(at) == at \in { "file", "file with old_string" }

(* the accesses to the file system a tool makes after _validate_path has   *)
(* returned path, in order: what is done and on which path; mkdir is an    *)
(* access where the parent directory may be missing                        *)
(* read_file 88, write_file 152-154, edit_file 207 and 250,               *)
(* delete_file 456, list_directory 547, search_files 356 and 383          *)
ToolIO(tool, path, at) ==
    CASE tool = "read_file" ->
             IF IsFile(at) THEN << << "read", path >> >> ELSE << >>
      [] tool = "write_file" ->
             IF at = "missing"
             THEN << << "mkdir", parent(path) >>, << "write", path >> >>
             ELSE IF at = "dir" THEN << >>
             ELSE << << "write", path >> >>
      [] tool = "edit_file" ->
             IF at = "file with old_string"
             THEN << << "read", path >>, << "write", path >> >>
             ELSE IF at = "file" THEN << << "read", path >> >>
             ELSE << >>
      [] tool = "delete_file" ->
             IF IsFile(at) THEN << << "delete", path >> >> ELSE << >>
      [] tool = "list_directory" ->
             IF at = "dir" THEN << << "list", path >> >> ELSE << >>
      [] tool = "search_files" ->
             IF at = "dir" THEN << << "list", path >>, << "read below", path >> >>
             ELSE << >>

(* the status each tool returns after _validate_path has returned *)
ToolStatus(tool, at) ==
    CASE tool = "write_file" -> IF at = "dir" THEN "FAILED" ELSE "SUCCESS"
      [] tool = "edit_file" -> IF at = "file with old_string" THEN "SUCCESS" ELSE "FAILED"
      [] tool \in { "read_file", "delete_file" } ->
             IF IsFile(at) THEN "SUCCESS" ELSE "FAILED"
      [] tool \in { "list_directory", "search_files" } ->
             IF at = "dir" THEN "SUCCESS" ELSE "FAILED"

(* a result dict with the accesses made and the callbacks invoked *)
PathResult(status, error, io, invoked) ==
    [status |-> status, error |-> error, io |-> io, invoked |-> invoked]

(* the tool going on after _validate_path has raised *)
AfterValidationCaught(tool, validated, at) ==
    PathResult(IF validated.raised THEN "DENIED" ELSE ToolStatus(tool, at),
               validated.error,
               ToolIO(tool, IF validated.raised THEN << >> ELSE validated.resolved[1], at),
               validated.invoked)
(* the try block of each tool and its except OutsideWorkingDirectoryError *)
AfterValidation(tool, validated, at) ==
    IF validated.raised
    THEN PathResult("DENIED", validated.error, << >>, validated.invoked)
    ELSE PathResult(ToolStatus(tool, at), << >>,
                    ToolIO(tool, validated.resolved[1], at), validated.invoked)

(* read_file 78-132, write_file 148-170, edit_file 198-284,            *)
(* delete_file 443-469, list_directory 514-596, search_files 331-427   *)
file_tool(tool, path, root_dir, at) ==
    AfterValidation(tool, _validate_path(path, root_dir, Operation(tool)), at)

FilePaths ==
    { << "a", ".", "t", "x", "t" >>, << "d", "/", "b", ".", "t", "x", "t" >>, << "/", "w", "o", "r", "k", "/", "a", ".", "t", "x", "t" >>, << "/", "e", "t", "c", "/", "p", "a", "s", "s", "w", "d" >>, << ".", ".", "/", "x" >>,
      << "/", "w", "o", "r", "k", "/", ".", ".", "/", "e", "t", "c", "/", "x" >>, << "~", "/", "x" >>, << "." >> }

(* the sandbox root the tools were made with: get_file_tools(root_dir) *)
RootDirs == { None, Some(Root) }

(* the directory the process is in exists, and so does each one above it *)
Exists(path) == path = cwd \/ startswith(cwd, path \o << "/" >>) \/ path = << "/" >>

(* the call is recorded with what it was given and what it found *)
ToolCalled(tool, path, root_dir, at) ==
    /\ Exists(resolve(path)) => at = "dir"
    /\ gate_call' = Some([op |-> tool, path |-> path, root_dir |-> root_dir,
                          at |-> at, callback |-> _confirm_callback,
                          returned |-> file_tool(tool, path, root_dir, at)])

(* filesystem.py 598-602 *)
ReadFile ==
    /\ GateIdle
    /\ \E path \in FilePaths, root_dir \in RootDirs, at \in Found :
          ToolCalled("read_file", path, root_dir, at)
    /\ UNCHANGED << nonGateVars, cwd, _confirm_callback >>

(* filesystem.py 605-609 *)
WriteFileAt ==
    /\ GateIdle
    /\ \E path \in FilePaths, root_dir \in RootDirs, at \in Found :
          ToolCalled("write_file", path, root_dir, at)
    /\ UNCHANGED << nonGateVars, cwd, _confirm_callback >>

(* filesystem.py 612-621 *)
EditFileAt ==
    /\ GateIdle
    /\ \E path \in FilePaths, root_dir \in RootDirs, at \in Found :
          ToolCalled("edit_file", path, root_dir, at)
    /\ UNCHANGED << nonGateVars, cwd, _confirm_callback >>

(* filesystem.py 631-635 *)
DeleteFileAt ==
    /\ GateIdle
    /\ \E path \in FilePaths, root_dir \in RootDirs, at \in Found :
          ToolCalled("delete_file", path, root_dir, at)
    /\ UNCHANGED << nonGateVars, cwd, _confirm_callback >>

(* filesystem.py 624-628 *)
ListDirectory ==
    /\ GateIdle
    /\ \E path \in FilePaths, root_dir \in RootDirs, at \in Found :
          ToolCalled("list_directory", path, root_dir, at)
    /\ UNCHANGED << nonGateVars, cwd, _confirm_callback >>

(* filesystem.py 638-642 *)
SearchFiles ==
    /\ GateIdle
    /\ \E path \in FilePaths, root_dir \in RootDirs, at \in Found :
          ToolCalled("search_files", path, root_dir, at)
    /\ UNCHANGED << nonGateVars, cwd, _confirm_callback >>

----------------------------------------------------------------------------
(* The session of the OpenAI-compatible provider                            *)
(* (auto_coder/providers/openai_compatible.py): its correlation id and its  *)
(* HTTP client.                                                             *)
(*                                                                          *)
(* A correlation id is << "uuid4", n >>, the id uuid.uuid4 generated after  *)
(* n others; a client is the number of clients created before it, plus one. *)
(* session records each call made on the provider: its op, the client it    *)
(* got or closed, whether it created that client, and the id it returned or *)
(* sent.                                                                    *)

Call(op, client, created, id) ==
    [op |-> op, client |-> client, created |-> created, id |-> id]

(* openai_compatible.py 41-44: uuid.uuid4 gives an id no earlier call gave *)
_generate_correlation_id(generated) == << "uuid4", generated >>

(* openai_compatible.py 80-85: the next httpx.AsyncClient *)
AsyncClient(log) ==
    Cardinality({ i \in 1..Len(log) : log[i].created }) + 1

(* a provider that builds a client for every chat() *)
_get_client_anew(client, log) == Some(AsyncClient(log))

(* openai_compatible.py 59-86 *)
_get_client(client, log) ==
    IF client = None THEN Some(AsyncClient(log)) ELSE client

(* a provider that sends the id it was constructed with *)
_get_request_headers_of_construction(correlation_id) ==
    [x_correlation_id |-> _generate_correlation_id(0)]

(* openai_compatible.py 88-92 *)
_get_request_headers(correlation_id) ==
    [x_correlation_id |-> correlation_id]

(* openai_compatible.py 308-312: the client after close() *)
close(client) ==
    IF client # None THEN None ELSE client

(* openai_compatible.py 37-38, no correlation_id given (cli.py gives none) *)
SessionInit ==
    /\ _client = None
    /\ uuid4_calls = 1
    /\ _correlation_id = _generate_correlation_id(0)
    /\ generators = << >>
    /\ session = << >>

(* no list handed out and no request built yet *)
SnapshotInit ==
    /\ snapshot = None
    /\ payloads = << >>
----------------------------------------------------------------------------
(* ConversationManager: each operation maps the log to the new log *)

SystemContent == "system prompt"

_initialize == << Message("system", Some(SystemContent), None, None, None) >>

add_user_message(log, content) ==
    Append(log, Message("user", Some(content), None, None, None))

add_assistant_message(log, content, tcs) ==
    Append(log, Message("assistant", content, tcs, None, None))

(* a store that files the result under the tool's name instead of the id *)
add_tool_result_by_name(log, result) ==
    Append(log, Message("tool", Some(result.content), None,
                        Some(result.name), Some(result.name)))

add_tool_result(log, result) ==
    Append(log, Message("tool", Some(result.content), None,
                        Some(result.tool_call_id), Some(result.name)))

(* a clear that starts the fresh log after the old one *)
clear_appending(log) == log \o _initialize

clear(log) == _initialize

(* conversation.py 249-262: the dict of one message; a list of tool calls *)
(* that is empty is written as None, like no list                         *)
MessageDict(msg) ==
    [role |-> msg.role,
     content |-> msg.content,
     tool_calls |->
         IF Truthy(msg.tool_calls, << >>)
         THEN Some([i \in 1..Len(msg.tool_calls[1]) |->
                       [id |-> msg.tool_calls[1][i].id,
                        name |-> msg.tool_calls[1][i].name,
                        arguments |-> msg.tool_calls[1][i].arguments]])
         ELSE None,
     tool_call_id |-> msg.tool_call_id,
     name |-> msg.name]

(* conversation.py 243-265 *)
to_dict(log) ==
    [system_prompt |-> SystemContent,
     working_dir |-> "working_dir",
     messages |-> [i \in 1..Len(log) |-> MessageDict(log[i])]]

(* conversation.py 277-296: the message of one dict *)
DictMessage(msg_data) ==
    Message(msg_data.role,
            msg_data.content,
            IF Truthy(msg_data.tool_calls, << >>)
            THEN Some([i \in 1..Len(msg_data.tool_calls[1]) |->
                          ToolCall(msg_data.tool_calls[1][i].id,
                                   msg_data.tool_calls[1][i].name,
                                   msg_data.tool_calls[1][i].arguments)])
            ELSE None,
            msg_data.tool_call_id,
            msg_data.name)

(* conversation.py 267-298: the log of the manager that is returned; the *)
(* messages the constructor made are dropped (274)                       *)
from_dict(data) ==
    [i \in 1..Len(data.messages) |-> DictMessage(data.messages[i])]
----------------------------------------------------------------------------
(* ToolRegistry.execute of auto_coder: the registered tools and what their  *)
(* handlers do.  read_file returns a dict, boom raises an ordinary          *)
(* exception, every other name is not registered.                           *)

RegisteredTools == {"read_file", "boom"}

HandlerRaises(name) == name = "boom"

execute(tool_call) ==
    IF tool_call.name \notin RegisteredTools
    THEN ToolResult(tool_call.id, tool_call.name,
                    "{error: Unknown tool: " \o tool_call.name \o "}", TRUE)
    ELSE IF HandlerRaises(tool_call.name)
         THEN ToolResult(tool_call.id, tool_call.name,
                         "{error: Tool execution failed}", TRUE)
         ELSE ToolResult(tool_call.id, tool_call.name, "{status: SUCCESS}", FALSE)

execute_async(tool_call) == execute(tool_call)

----------------------------------------------------------------------------
(* What the provider may answer a chat request with *)

Text(s) == StreamChunk(Some(s), None, None)
Finish(reason) == StreamChunk(None, None, Some(reason))
Calls(tcs) == StreamChunk(None, Some(tcs), Some("tool_calls"))

CallA == ToolCall("a", "read_file", "args_a")
CallB == ToolCall("b", "boom", "args_b")
CallC == ToolCall("c", "nope", "args_c")

ChatStream == << Text("hello "), Text("world"), Finish("stop") >>
EmptyStream == << Text(""), Finish("stop") >>
OneCallStream == << Calls(<< CallA >>) >>
TwoCallStream == << Text("hmm"), Calls(<< CallB, CallC >>) >>

Streams == { ChatStream, EmptyStream, OneCallStream, TwoCallStream }

CapStreams == { ChatStream, OneCallStream }

UserInputs == { "hi" }

MaxIterationsMarker == "[Reached maximum tool iterations]"

----------------------------------------------------------------------------
(* Agent.run, one action per stretch of code between two suspension points  *)

Idle == pc \in {"idle", "done", "cancelled", "failed"}

Ev(kind, what) == << kind, what >>

Constructed(caps) ==
    /\ messages = _initialize
    /\ max_tool_iterations \in caps
    /\ pc = "idle"
    /\ iteration = 0
    /\ response_content = ""
    /\ tool_calls = << >>
    /\ tc_i = 1
    /\ stream = << >>
    /\ cancel_requested = FALSE
    /\ escape_pc = "none"
    /\ yielded = << >>
    /\ events = << >>
    /\ run_start = 1
    /\ runs = 0
    /\ store_ops = 0
    /\ incomplete = FALSE
    /\ StreamInit
    /\ RegistryInit
    /\ FileInit
    /\ GateInit
    /\ SessionInit
    /\ SnapshotInit

(* the process is started in the sandbox root *)
InitWith(caps) == Constructed(caps) /\ cwd = Root

(* the process is started in some directory *)
InitGate == Constructed({DefaultMaxToolIterations}) /\ cwd \in ProcessCwds

(* an agent built with a small max_tool_iterations *)
Init == InitWith(1..MaxIterCap)

(* an agent built with the default max_tool_iterations *)
InitDefault == InitWith({DefaultMaxToolIterations})

(* agent.py 45-47: the host starts run(); repl.py 299 clears the flag *)
RunStart ==
    /\ Idle
    /\ runs + store_ops < MaxCalls
    /\ \E u \in UserInputs :
          /\ messages' = add_user_message(messages, u)
          /\ events' = << Ev("append", "user") >>
    /\ run_start' = Len(messages) + 1
    /\ runs' = runs + 1
    /\ iteration' = 0
    /\ response_content' = ""
    /\ tool_calls' = << >>
    /\ tc_i' = 1
    /\ stream' = << >>
    /\ yielded' = << >>
    /\ cancel_requested' = FALSE
    /\ escape_pc' = "none"
    /\ pc' = "loop"
    /\ UNCHANGED << max_tool_iterations, store_ops, incomplete >>
    /\ UNCHANGED nonAgentVars

(* a loop test that lets one more iteration through *)
OpenStreamOnceMore(menu) ==
    /\ pc = "loop"
    /\ iteration <= max_tool_iterations
    /\ iteration' = iteration + 1
    /\ response_content' = ""
    /\ tool_calls' = << >>
    /\ \E s \in menu :
          /\ stream' = s
          /\ events' = Append(events, Ev("open", s))
    /\ pc' = "stream"
    /\ UNCHANGED << messages, max_tool_iterations, tc_i, cancel_requested,
                    yielded, run_start, escape_pc, runs, store_ops, incomplete >>
    /\ UNCHANGED nonAgentVars

(* agent.py 48-59: the loop test, iteration += 1, provider.chat *)
OpenStream(menu) ==
    /\ pc = "loop"
    /\ iteration < max_tool_iterations
    /\ iteration' = iteration + 1
    /\ response_content' = ""
    /\ tool_calls' = << >>
    /\ \E s \in menu :
          /\ stream' = s
          /\ events' = Append(events, Ev("open", s))
    /\ pc' = "stream"
    /\ UNCHANGED << messages, max_tool_iterations, tc_i, cancel_requested,
                    yielded, run_start, escape_pc, runs, store_ops, incomplete >>
    /\ UNCHANGED nonAgentVars

(* agent.py 48: the loop test fails *)
LoopExit ==
    /\ pc = "loop"
    /\ ~(iteration < max_tool_iterations)
    /\ pc' = "after_loop"
    /\ UNCHANGED << messages, max_tool_iterations, iteration, response_content,
                    tool_calls, tc_i, stream, cancel_requested, yielded, events,
                    run_start, escape_pc, runs, store_ops, incomplete >>
    /\ UNCHANGED nonAgentVars

(* a read that keeps the last chunk's text instead of accumulating *)
ReadChunkOverwriting ==
    /\ pc = "stream"
    /\ stream # << >>
    /\ LET chunk == Head(stream) IN
          /\ response_content' =
                IF Truthy(chunk.content, "") THEN chunk.content[1]
                ELSE response_content
          /\ tool_calls' =
                IF Truthy(chunk.tool_calls, << >>)
                THEN chunk.tool_calls[1]
                ELSE tool_calls
          /\ events' = Append(events, Ev("chunk", chunk))
    /\ stream' = Tail(stream)
    /\ UNCHANGED << messages, max_tool_iterations, pc, iteration, tc_i,
                    cancel_requested, yielded, run_start, escape_pc, runs,
                    store_ops, incomplete >>
    /\ UNCHANGED nonAgentVars

(* agent.py 62-67: one chunk of the stream *)
ReadChunk ==
    /\ pc = "stream"
    /\ stream # << >>
    /\ LET chunk == Head(stream) IN
          /\ response_content' =
                IF Truthy(chunk.content, "")
                THEN response_content \o chunk.content[1]
                ELSE response_content
          /\ tool_calls' =
                IF Truthy(chunk.tool_calls, << >>)
                THEN chunk.tool_calls[1]
                ELSE tool_calls
          /\ events' = Append(events, Ev("chunk", chunk))
    /\ stream' = Tail(stream)
    /\ UNCHANGED << messages, max_tool_iterations, pc, iteration, tc_i,
                    cancel_requested, yielded, run_start, escape_pc, runs, store_ops, incomplete >>
    /\ UNCHANGED nonAgentVars

(* a run that asks the provider again when a stream has failed *)
StreamErrorRetried ==
    /\ pc = "stream"
    /\ events' = Append(events, Ev("raised", iteration))
    /\ stream' = << >>
    /\ pc' = "loop"
    /\ incomplete' = TRUE
    /\ UNCHANGED << messages, max_tool_iterations, iteration, response_content,
                    tool_calls, tc_i, cancel_requested, yielded, run_start,
                    escape_pc, runs, store_ops >>
    /\ UNCHANGED nonAgentVars

(* agent.py 62, openai_compatible.py 232-238: reading the stream raises, *)
(* at the first read (raise_for_status on a status that is not 2xx) or   *)
(* at a later one; run() catches nothing, so the error leaves it         *)
StreamError ==
    /\ pc = "stream"
    /\ events' = Append(events, Ev("raised", iteration))
    /\ stream' = << >>
    /\ pc' = "failed"
    /\ incomplete' = TRUE
    /\ UNCHANGED << messages, max_tool_iterations, iteration, response_content,
                    tool_calls, tc_i, cancel_requested, yielded, run_start,
                    escape_pc, runs, store_ops >>
    /\ UNCHANGED nonAgentVars

(* agent.py 70-81: the stream is exhausted *)
StreamEnd ==
    /\ pc = "stream"
    /\ stream = << >>
    /\ IF tool_calls = << >>
       THEN IF response_content # ""
            THEN /\ yielded' = Append(yielded, response_content)
                 /\ events' = events \o << Ev("exhausted", iteration),
                                           Ev("yield", response_content) >>
                 /\ pc' = "yield_text"
                 /\ UNCHANGED << messages, tc_i >>
            ELSE /\ events' = Append(events, Ev("exhausted", iteration))
                 /\ pc' = "after_loop"
                 /\ UNCHANGED << messages, tc_i, yielded >>
       ELSE /\ messages' = add_assistant_message(messages, None, Some(tool_calls))
            /\ events' = events \o << Ev("exhausted", iteration),
                                      Ev("append", "assistant") >>
            /\ tc_i' = 1
            /\ pc' = "tools"
            /\ UNCHANGED yielded
    /\ UNCHANGED << max_tool_iterations, iteration, response_content, tool_calls,
                    stream, cancel_requested, run_start, escape_pc, runs, store_ops, incomplete >>
    /\ UNCHANGED nonAgentVars

(* a for loop that goes back to the provider after the first tool call *)
ExecToolFirstOnly ==
    /\ pc = "tools"
    /\ tc_i <= Len(tool_calls)
    /\ LET tool_call == tool_calls[tc_i]
           result == execute_async(tool_call)
       IN  /\ messages' = add_tool_result(messages, result)
           /\ events' = events \o << Ev("on_tool_start", tool_call.id),
                                     Ev("execute", tool_call.id),
                                     Ev("append", "tool"),
                                     Ev("on_tool_end", tool_call.id) >>
    /\ tc_i' = tc_i + 1
    /\ pc' = "loop"
    /\ UNCHANGED << max_tool_iterations, iteration, response_content, tool_calls,
                    stream, cancel_requested, yielded, run_start, escape_pc, runs,
                    store_ops, incomplete >>
    /\ UNCHANGED nonAgentVars

(* a for loop that calls on_tool_end before the result is in the log *)
ExecToolEndingEarly ==
    /\ pc = "tools"
    /\ tc_i <= Len(tool_calls)
    /\ LET tool_call == tool_calls[tc_i]
           result == execute_async(tool_call)
       IN  /\ messages' = add_tool_result(messages, result)
           /\ events' = events \o << Ev("on_tool_start", tool_call.id),
                                     Ev("execute", tool_call.id),
                                     Ev("on_tool_end", tool_call.id),
                                     Ev("append", "tool") >>
    /\ tc_i' = tc_i + 1
    /\ pc' = IF tc_i = Len(tool_calls) THEN "loop" ELSE "tools"
    /\ UNCHANGED << max_tool_iterations, iteration, response_content, tool_calls,
                    stream, cancel_requested, yielded, run_start, escape_pc, runs, store_ops, incomplete >>
    /\ UNCHANGED nonAgentVars

(* agent.py 84-92: one pass of the for loop over tool_calls *)
ExecTool ==
    /\ pc = "tools"
    /\ tc_i <= Len(tool_calls)
    /\ LET tool_call == tool_calls[tc_i]
           result == execute_async(tool_call)
       IN  /\ messages' = add_tool_result(messages, result)
           /\ events' = events \o << Ev("on_tool_start", tool_call.id),
                                     Ev("execute", tool_call.id),
                                     Ev("append", "tool"),
                                     Ev("on_tool_end", tool_call.id) >>
    /\ tc_i' = tc_i + 1
    /\ pc' = IF tc_i = Len(tool_calls) THEN "loop" ELSE "tools"
    /\ UNCHANGED << max_tool_iterations, iteration, response_content, tool_calls,
                    stream, cancel_requested, yielded, run_start, escape_pc, runs, store_ops, incomplete >>
    /\ UNCHANGED nonAgentVars

(* agent.py 73-74: the host asks for the item after the text *)
ResumeAfterText ==
    /\ pc = "yield_text"
    /\ ~cancel_requested
    /\ messages' = add_assistant_message(messages, Some(response_content), None)
    /\ events' = Append(events, Ev("append", "assistant"))
    /\ pc' = "after_loop"
    /\ UNCHANGED << max_tool_iterations, iteration, response_content, tool_calls,
                    tc_i, stream, cancel_requested, yielded, run_start, escape_pc, runs, store_ops,
                    incomplete >>
    /\ UNCHANGED nonAgentVars

(* agent.py 96-97 *)
AfterLoop ==
    /\ pc = "after_loop"
    /\ IF iteration >= max_tool_iterations
       THEN /\ yielded' = Append(yielded, MaxIterationsMarker)
            /\ events' = Append(events, Ev("yield", MaxIterationsMarker))
            /\ pc' = "yield_marker"
       ELSE /\ events' = Append(events, Ev("return", iteration))
            /\ pc' = "done"
            /\ UNCHANGED yielded
    /\ UNCHANGED << messages, max_tool_iterations, iteration, response_content,
                    tool_calls, tc_i, stream, cancel_requested, run_start, escape_pc, runs, store_ops,
                    incomplete >>
    /\ UNCHANGED nonAgentVars

(* agent.py 97: the host asks for the item after the marker; run() returns *)
ResumeAfterMarker ==
    /\ pc = "yield_marker"
    /\ ~cancel_requested
    /\ events' = Append(events, Ev("return", iteration))
    /\ pc' = "done"
    /\ UNCHANGED << messages, max_tool_iterations, iteration, response_content,
                    tool_calls, tc_i, stream, cancel_requested, yielded,
                    run_start, escape_pc, runs, store_ops, incomplete >>
    /\ UNCHANGED nonAgentVars

----------------------------------------------------------------------------
(* Cancellation *)

(* repl.py 377-411: the listener thread sets the flag at any time of a run *)
PressEscape ==
    /\ ~Idle
    /\ ~cancel_requested
    /\ cancel_requested' = TRUE
    /\ escape_pc' = pc
    /\ UNCHANGED << messages, max_tool_iterations, pc, iteration,
                    response_content, tool_calls, tc_i, stream, yielded, events,
                    run_start, runs, store_ops, incomplete >>
    /\ UNCHANGED nonAgentVars

(* repl.py 302-305, 326-336: the flag is looked at when a chunk is received; *)
(* the generator stays suspended at its yield and is never resumed           *)
HostCancel ==
    /\ pc \in {"yield_text", "yield_marker"}
    /\ cancel_requested
    /\ cancel_requested' = FALSE
    /\ incomplete' = TRUE
    /\ events' = Append(events, Ev("cancelled", pc))
    /\ pc' = "cancelled"
    /\ UNCHANGED << messages, max_tool_iterations, iteration, response_content,
                    tool_calls, tc_i, stream, yielded, run_start, escape_pc, runs, store_ops >>
    /\ UNCHANGED nonAgentVars

(* The awaits of run() at which the task is suspended and a cancellation of  *)
(* the task is delivered: the read of the provider stream.  execute_async    *)
(* (registry.py 77-81) holds no await, so a run is never left inside it.     *)
(* an execute_async that suspends while the handler runs *)
CancellableAtEveryAwait(p) == p \in {"stream", "tools"}

CancellableAt(p) == p = "stream"

(* the task running run() is cancelled while it is suspended *)
CancelTask ==
    /\ CancellableAt(pc)
    /\ incomplete' = TRUE
    /\ cancel_requested' = FALSE
    /\ events' = Append(events, Ev("cancelled", pc))
    /\ pc' = "cancelled"
    /\ UNCHANGED << messages, max_tool_iterations, iteration, response_content,
                    tool_calls, tc_i, stream, yielded, run_start, escape_pc, runs, store_ops >>
    /\ UNCHANGED nonAgentVars

(* a reset that leaves the provider's correlation id as it is *)
ResetKeepingId ==
    /\ Idle
    /\ messages # _initialize
    /\ messages' = clear(messages)
    /\ run_start' = 1
    /\ events' = Append(events, Ev("clear", "reset"))
    /\ pc' = "idle"
    /\ session' = Append(session, Call("reset", None, FALSE,
                                       Some(_correlation_id)))
    /\ UNCHANGED << max_tool_iterations, iteration, response_content,
                    tool_calls, tc_i, stream, cancel_requested, yielded,
                    escape_pc, runs, store_ops, incomplete >>
    /\ UNCHANGED << streamVars, registryVars, fileVars, gateVars, snapshotVars,
                    _correlation_id, uuid4_calls, _client, generators >>

(* agent.py 106-114: conversation.clear(), then the provider's           *)
(* reset_correlation_id (openai_compatible.py 50-57), whose id is returned *)
Reset ==
    /\ Idle
    /\ messages # _initialize
    /\ messages' = clear(messages)
    /\ run_start' = 1
    /\ events' = Append(events, Ev("clear", "reset"))
    /\ pc' = "idle"
    /\ _correlation_id' = _generate_correlation_id(uuid4_calls)
    /\ uuid4_calls' = uuid4_calls + 1
    /\ session' = Append(session, Call("reset", None, FALSE,
                                       Some(_correlation_id')))
    /\ UNCHANGED << max_tool_iterations, iteration, response_content,
                    tool_calls, tc_i, stream, cancel_requested, yielded,
                    escape_pc, runs, store_ops, incomplete >>
    /\ UNCHANGED << streamVars, registryVars, fileVars, gateVars, snapshotVars,
                    _client, generators >>

(* openai_compatible.py 142-200: chat() gets the client and returns the *)
(* generator of _stream_response, which has not run yet                 *)
Chat ==
    /\ Len(session) < MaxSession
    /\ _client' = _get_client(_client, session)
    /\ generators' = Append(generators, _client'[1])
    /\ session' = Append(session, Call("chat", _client', _client' # _client,
                                       None))
    /\ UNCHANGED << _correlation_id, uuid4_calls >>
    /\ UNCHANGED nonSessionVars

(* openai_compatible.py 222-237: the caller starts iterating a generator, *)
(* which reads the request headers and sends the POST on its client       *)
SendRequest ==
    /\ Len(session) < MaxSession
    /\ \E g \in 1..Len(generators) :
          /\ session' = Append(session,
                 Call("request", Some(generators[g]), FALSE,
                      Some(_get_request_headers(_correlation_id).x_correlation_id)))
          /\ generators' = SubSeq(generators, 1, g - 1)
                              \o SubSeq(generators, g + 1, Len(generators))
    /\ UNCHANGED << _correlation_id, uuid4_calls, _client >>
    /\ UNCHANGED nonSessionVars

(* agent.py 120-122, openai_compatible.py 308-312: aclose() on the client *)
(* there is, if any                                                       *)
Close ==
    /\ Len(session) < MaxSession
    /\ session' = Append(session, Call("close", _client, FALSE, None))
    /\ _client' = close(_client)
    /\ UNCHANGED << _correlation_id, uuid4_calls, generators >>
    /\ UNCHANGED nonSessionVars

----------------------------------------------------------------------------
(* Direct calls of the ConversationManager's public operations by a caller  *)
(* other than Agent.run, while no run is in progress                        *)

StoreContents == { None, Some("x") }
StoreToolCalls == { None, Some(<< >>), Some(<< CallA >>) }
StoreResults == { execute(CallA), execute(CallC) }

StoreOp(log) ==
    /\ Idle
    /\ runs + store_ops < MaxCalls
    /\ messages' = log
    /\ store_ops' = store_ops + 1
    /\ pc' = "idle"
    /\ run_start' = 1
    /\ UNCHANGED << max_tool_iterations, iteration, response_content, tool_calls,
                    tc_i, stream, cancel_requested, yielded, escape_pc, runs, incomplete >>
    /\ UNCHANGED nonAgentVars

(* conversation.py 199-201 *)
StoreAddUser ==
    /\ \E c \in UserInputs : StoreOp(add_user_message(messages, c))
    /\ events' = Append(events, Ev("store", "add_user_message"))

(* conversation.py 203-211 *)
StoreAddAssistant ==
    /\ \E c \in StoreContents, tcs \in StoreToolCalls :
          StoreOp(add_assistant_message(messages, c, tcs))
    /\ events' = Append(events, Ev("store", "add_assistant_message"))

(* conversation.py 213-222 *)
StoreAddToolResult ==
    /\ \E r \in StoreResults : StoreOp(add_tool_result(messages, r))
    /\ events' = Append(events, Ev("store", "add_tool_result"))

(* conversation.py 228-230 *)
StoreClear ==
    /\ messages # _initialize
    /\ StoreOp(clear(messages))
    /\ events' = Append(events, Ev("clear", "clear"))

----------------------------------------------------------------------------

vars == << agentVars, streamVars, registryVars, fileVars, gateVars, sessionVars,
    snapshotVars >>

NextAgent ==
    \/ RunStart
    \/ OpenStream(Streams)
    \/ LoopExit
    \/ ReadChunk
    \/ StreamEnd
    \/ ExecTool
    \/ ResumeAfterText
    \/ AfterLoop
    \/ ResumeAfterMarker
    \/ PressEscape
    \/ HostCancel
    \/ CancelTask
    \/ Reset

NextStore ==
    \/ StoreAddUser
    \/ StoreAddAssistant
    \/ StoreAddToolResult
    \/ StoreClear

NextAll == NextAgent \/ NextStore

(* the agent with the default cap, the provider answering with a tool call *)
(* or with text                                                            *)
NextDefault ==
    \/ RunStart
    \/ OpenStream(CapStreams)
    \/ LoopExit
    \/ ReadChunk
    \/ StreamEnd
    \/ ExecTool
    \/ ResumeAfterText
    \/ AfterLoop
    \/ ResumeAfterMarker
    \/ PressEscape
    \/ HostCancel
    \/ CancelTask
    \/ Reset

(* the steps of a run whose provider keeps sending, whose handlers return   *)
(* and whose host keeps asking for the next item                            *)
RunStep ==
    \/ OpenStream(CapStreams)
    \/ LoopExit
    \/ ReadChunk
    \/ StreamEnd
    \/ ExecTool
    \/ ResumeAfterText
    \/ AfterLoop
    \/ ResumeAfterMarker
    \/ HostCancel

(* Agent.run and Agent.reset only *)
Spec == Init /\ [][NextAgent]_vars

(* a ToolRegistry of code_crafter, tools being registered and called *)
SpecRegistry == InitDefault /\ [][NextRegistry]_vars

(* shell.py 266-272: the handler _make_run_command_handler returns for *)
(* default_working_dir, called with command and working_dir            *)
RunCommandHandler(default_working_dir, command, working_dir, outcome) ==
    run_command(command,
                IF working_dir \in { None, Some(<< >>) } THEN default_working_dir
                ELSE working_dir,
                outcome)

(* a call of the run_command tool of a registry configured with the  *)
(* sandbox root, with or without a working_dir argument              *)
RunCommandTool ==
    /\ GateIdle
    /\ \E command \in RunCommands,
          working_dir \in { None } \cup { Some(d) : d \in WorkingDirs },
          outcome \in Outcomes :
          gate_call' = Some([op |-> "run_command tool", command |-> command,
                             default_working_dir |-> Some(Root),
                             working_dir |-> working_dir,
                             callback |-> _confirm_callback,
                             returned |-> RunCommandHandler(Some(Root), command,
                                                            working_dir, outcome)])
    /\ UNCHANGED << nonGateVars, cwd, _confirm_callback >>

NextOverride == SetConfirmationCallback \/ RunCommandTool

(* the run_command tool of a registry configured with a sandbox root *)
SpecOverride == InitGate /\ [][NextOverride]_vars

(* A list object: its entries, and whether it is the list the log keeps *)
(* in self._messages; what is done to that list is done to the log      *)
ListObject(entries, is_log) == [entries |-> entries, is_log |-> is_log]

(* a get_messages that hands out self._messages itself *)
get_messages_itself(log) == ListObject(log, TRUE)
(* conversation.py 224-226: self._messages.copy(), a new list of the same *)
(* messages                                                               *)
get_messages(log) == ListObject(log, FALSE)

(* A dict of a request: a key that is absent is None, a key that is      *)
(* present is << value >>; is_message tells whether the dict is the      *)
(* message's own attribute dict, so that a write to it is a write to the *)
(* message                                                               *)
RequestDict(role, content, tool_call_id, tcs, is_message) ==
    [role |-> role, content |-> content, tool_call_id |-> tool_call_id,
     tool_calls |-> tcs, is_message |-> is_message]

(* openai_compatible.py 112-122: the tool calls in the wire format *)
WireToolCalls(tcs) ==
    [k \in 1..Len(tcs) |->
        [id |-> tcs[k].id, type |-> "function",
         function |-> [name |-> tcs[k].name,
                       arguments |-> json_dumps(tcs[k].arguments)]]]

(* a _message_to_dict that hands out the message's own attribute dict *)
_message_to_dict_in_place(msg) ==
    RequestDict(msg.role, msg.content, None, None, TRUE)
(* openai_compatible.py 94-124: a new dict for each message *)
_message_to_dict(msg) ==
    IF msg.role = "tool"
    THEN RequestDict("tool",
                     Some(IF msg.content # None THEN msg.content[1] ELSE ""),
                     Some(msg.tool_call_id), None, FALSE)
    ELSE RequestDict(msg.role, msg.content, None,
                     IF Truthy(msg.tool_calls, << >>)
                     THEN Some(WireToolCalls(msg.tool_calls[1]))
                     ELSE None,
                     FALSE)

(* the tools chat() is given: name, description and the text            *)
(* json.dumps(parameters, indent=2) gives for the tool's schema         *)
ChatTool(name, description, parameters_json) ==
    [name |-> name, description |-> description,
     parameters_json |-> parameters_json]

ReadFileChatTool == ChatTool("read_file", "Read a file", "{}")

ChatToolLists == { << >>, << ReadFileChatTool >> }

(* openai_compatible.py 161-165: the text of the tools from the k-th on *)
RECURSIVE ToolsText(_, _)
ToolsText(tools, k) ==
    IF k > Len(tools) THEN ""
    ELSE "### " \o tools[k].name \o "\n" \o tools[k].description \o "\n"
         \o "Parameters: " \o tools[k].parameters_json \o "\n\n"
         \o ToolsText(tools, k + 1)

(* openai_compatible.py 158-165 *)
tools_description(tools) ==
    IF tools = << >> THEN ""
    ELSE "\n\n## TOOL DEFINITIONS (use these exact names and parameters):\n\n"
         \o ToolsText(tools, 1)

(* formatted_messages[0].get("content", "") *)
ContentOrEmpty(dict) == IF dict.content = None THEN "" ELSE dict.content[1]

(* openai_compatible.py 167-169: whether the description is injected *)
Injects(formatted, description) ==
    IF formatted = << >> THEN FALSE
    ELSE formatted[1].role = "system" /\ description # ""

(* openai_compatible.py 156-169: formatted_messages after the injection *)
Injected(formatted, description) ==
    IF Injects(formatted, description)
    THEN [formatted EXCEPT
            ![1].content = Some(ContentOrEmpty(formatted[1]) \o description)]
    ELSE formatted

(* openai_compatible.py 156: [self._message_to_dict(m) for m in messages] *)
Formatted(entries) == [i \in 1..Len(entries) |-> _message_to_dict(entries[i])]

(* the log after chat() wrote formatted[0]["content"]: the write reaches *)
(* the first message when the dict is the message's own                 *)
LogAfterInjection(log, formatted, description) ==
    IF Injects(formatted, description) /\ formatted[1].is_message
    THEN [log EXCEPT ![1].content = Injected(formatted, description)[1].content]
    ELSE log

restOfAgentVars ==
    << max_tool_iterations, pc, iteration, response_content, tool_calls, tc_i,
       stream, cancel_requested, escape_pc, yielded, events, run_start, runs,
       store_ops, incomplete >>

(* a caller asks for the messages and keeps the list *)
GetMessages ==
    /\ snapshot' = Some(get_messages(messages))
    /\ UNCHANGED << messages, restOfAgentVars, payloads >>
    /\ UNCHANGED << streamVars, registryVars, fileVars, gateVars, sessionVars >>

(* what a caller does to the list it holds: list.append, list.pop and *)
(* list.reverse                                                      *)
ListMutations == { "append", "pop", "reverse" }

Mutated(entries, mutation) ==
    CASE mutation = "append" ->
             Append(entries, Message("user", Some("extra"), None, None, None))
      [] mutation = "pop" -> SubSeq(entries, 1, Len(entries) - 1)
      [] mutation = "reverse" ->
             [i \in 1..Len(entries) |-> entries[Len(entries) + 1 - i]]

(* the caller changes the list it was just given *)
MutateSnapshot ==
    /\ snapshot # None
    /\ IF snapshot = None THEN FALSE ELSE snapshot[1].entries = messages
    /\ \E mutation \in ListMutations :
          /\ snapshot' = Some(ListObject(Mutated(snapshot[1].entries, mutation),
                                         snapshot[1].is_log))
          /\ messages' = IF snapshot[1].is_log
                         THEN Mutated(snapshot[1].entries, mutation)
                         ELSE messages
    /\ UNCHANGED << restOfAgentVars, payloads >>
    /\ UNCHANGED << streamVars, registryVars, fileVars, gateVars, sessionVars >>

(* agent.py 55-59, openai_compatible.py 156-176: chat() called with the *)
(* list get_messages returns and the tools, up to the payload           *)
ChatWithTools ==
    /\ Len(payloads) < MaxPayloads
    /\ \E tools \in ChatToolLists :
          /\ payloads' = Append(payloads,
                                Injected(Formatted(get_messages(messages).entries),
                                         tools_description(tools)))
          /\ messages' = LogAfterInjection(messages,
                                           Formatted(get_messages(messages).entries),
                                           tools_description(tools))
    /\ UNCHANGED << restOfAgentVars, snapshot >>
    /\ UNCHANGED << streamVars, registryVars, fileVars, gateVars, sessionVars >>

NextSnapshot ==
    \/ StoreAddUser
    \/ StoreClear
    \/ GetMessages
    \/ MutateSnapshot
    \/ ChatWithTools

(* the log, the lists get_messages hands out and the requests chat() builds *)
SpecSnapshot == InitDefault /\ [][NextSnapshot]_vars

(* list_directory and search_files called through the registry *)
SpecDirectory == InitDefault /\ [][NextDirectory]_vars

(* the filesystem tools on one path *)
SpecFile == InitDefault /\ [][NextFile]_vars

SpecWrite == InitDefault /\ [][NextWrite]_vars

NextGate ==
    \/ SetConfirmationCallback
    \/ ConfirmDangerousOperation
    \/ RunCommand
    \/ ReadFile
    \/ WriteFileAt
    \/ EditFileAt
    \/ DeleteFileAt
    \/ ListDirectory
    \/ SearchFiles

NextFailure ==
    \/ RunStart
    \/ OpenStream(Streams)
    \/ LoopExit
    \/ ReadChunk
    \/ StreamError
    \/ StreamEnd
    \/ ExecTool
    \/ ResumeAfterText
    \/ AfterLoop
    \/ ResumeAfterMarker

(* Agent.run with a provider whose streams may fail *)
SpecFailure == Init /\ [][NextFailure]_vars

NextSession ==
    \/ StoreAddUser
    \/ StoreAddAssistant
    \/ Reset
    \/ Chat
    \/ SendRequest
    \/ Close

(* the provider's session: chat(), close() and Agent.reset() after any *)
(* history                                                             *)
SpecSession == InitDefault /\ [][NextSession]_vars

(* the safety gate and the tools that consult it *)
SpecGate == InitGate /\ [][NextGate]_vars

(* check_dangerous_command on each command *)
SpecShell == InitDefault /\ [][CheckDangerousCommand]_vars

(* one response body read by _stream_response *)
SpecStream == Init /\ [][NextStream]_vars

SpecDefault == InitDefault /\ [][NextDefault]_vars /\ WF_vars(RunStep)

(* Agent.run, Agent.reset and direct calls of the store's operations *)
SpecAll == Init /\ [][NextAll]_vars

----------------------------------------------------------------------------
(* Predicates on a log *)

IsCallMessage(m) == m.role = "assistant" /\ Truthy(m.tool_calls, << >>)

IdsOf(m) == { m.tool_calls[1][c].id : c \in 1..Len(m.tool_calls[1]) }

(* the tool message at k answers some call of an earlier assistant message *)
ToolMatchesEarlierCall(log, k) ==
    /\ log[k].tool_call_id # None
    /\ \E i \in 1..(k - 1) :
          /\ IsCallMessage(log[i])
          /\ log[k].tool_call_id[1] \in IdsOf(log[i])

(* every id of the call message at i has its tool message after i and       *)
(* before position j, with no assistant message in between                  *)
CallsAnsweredBefore(log, i, j) ==
    \A id \in IdsOf(log[i]) :
        \E k \in (i + 1)..(j - 1) :
            /\ log[k].role = "tool"
            /\ log[k].tool_call_id = Some(id)
            /\ \A x \in (i + 1)..(k - 1) : log[x].role # "assistant"

ToolCallPairing(log) ==
    /\ \A k \in 1..Len(log) :
          log[k].role = "tool" => ToolMatchesEarlierCall(log, k)
    /\ \A i \in 1..Len(log) :
          IsCallMessage(log[i]) => CallsAnsweredBefore(log, i, Len(log) + 1)

----------------------------------------------------------------------------
(* C1: after any sequence of Agent.run calls that each ran to completion,   *)
(* every tool message's tool_call_id is the id of a tool call of an earlier *)
(* assistant message, and every id of an assistant message's tool_calls is  *)
(* followed by a tool message with that id before the next assistant        *)
(* message.                                                                 *)
C1_PairingAfterCompletedRuns ==
    (pc \in {"idle", "done"} /\ ~incomplete) => ToolCallPairing(messages)

C1_Witness ==
    /\ pc = "done"
    /\ ~incomplete
    /\ runs = 2
    /\ \E i \in 1..Len(messages) :
          IsCallMessage(messages[i]) /\ Len(messages[i].tool_calls[1]) = 2
    /\ \E i \in 1..Len(messages) :
          IsCallMessage(messages[i]) /\ i < run_start

C3_StoreKeepsPairing ==
    \A k \in 1..Len(messages) :
        /\ messages[k].role = "tool" => ToolMatchesEarlierCall(messages, k)
        /\ messages[k].role = "assistant" =>
              (messages[k].tool_calls = None \/ messages[k].tool_calls[1] # << >>)

(* C4: in every state reachable by add_user_message, add_assistant_message, *)
(* add_tool_result, clear, Agent.run and Agent.reset, the first message of  *)
(* the log has role system and no other message has.                        *)
C4_ExactlyOneLeadingSystemMessage ==
    /\ Len(messages) >= 1
    /\ messages[1].role = "system"
    /\ \A k \in 2..Len(messages) : messages[k].role # "system"

C4_Witness ==
    /\ runs = 1
    /\ store_ops = 1
    /\ Len(events) >= 2
    /\ events[Len(events)][1] = "clear"
    /\ events[Len(events) - 1] = Ev("store", "add_tool_result")
    /\ messages = _initialize

----------------------------------------------------------------------------
(* What a provider stream amounts to, read off the chunks it emits *)

RECURSIVE FinalCalls(_)
FinalCalls(s) ==
    IF s = << >> THEN << >>
    ELSE IF Truthy(s[Len(s)].tool_calls, << >>) THEN s[Len(s)].tool_calls[1]
    ELSE FinalCalls(SubSeq(s, 1, Len(s) - 1))

HasContent(chunk) == Truthy(chunk.content, "")

ContentChunks(s) ==
    LET with == SelectSeq(s, HasContent) IN
        [k \in 1..Len(with) |-> with[k].content[1]]

RECURSIVE Joined(_)
Joined(strs) == IF strs = << >> THEN "" ELSE strs[1] \o Joined(Tail(strs))

StreamText(s) == Joined(ContentChunks(s))

(* the streams this run has opened, in order *)
IsOpen(e) == e[1] = "open"

OpenedIn(evs) ==
    LET opens == SelectSeq(evs, IsOpen) IN
        [k \in 1..Len(opens) |-> opens[k][2]]

Opened == OpenedIn(events)

Exhausted(j) == \E p \in 1..Len(events) : events[p] = Ev("exhausted", j)

Shape(m) ==
    IF m.role = "tool" THEN << "tool", m.tool_call_id >>
    ELSE IF m.role = "assistant" THEN << "assistant", m.tool_calls >>
    ELSE << m.role, None >>

RunLog == SubSeq(messages, run_start, Len(messages))

(* the call message of the j-th stream and the tool messages due so far *)
CallGroup(opened, j) ==
    LET calls == FinalCalls(opened[j])
        due == IF j = Len(opened) /\ pc = "tools" THEN tc_i - 1 ELSE Len(calls)
    IN  IF ~Exhausted(j) \/ calls = << >> THEN << >>
        ELSE << << "assistant", Some(calls) >> >>
             \o [c \in 1..due |-> << "tool", Some(calls[c].id) >>]

RECURSIVE CallGroups(_, _)
CallGroups(opened, j) ==
    IF j = 0 THEN << >> ELSE CallGroups(opened, j - 1) \o CallGroup(opened, j)

(* C5: within one run() the log grows in this order: the user message;      *)
(* for each stream that ended with tool calls one assistant message         *)
(* carrying those calls, then one tool message per call in the order of the *)
(* calls; then at most one final assistant message carrying text.  A stream *)
(* is opened only when the previous one is exhausted and all its tool       *)
(* results are in the log.                                                  *)
C5_LogOrderWithinRun ==
    pc # "idle" =>
        LET opened == Opened
            n == Len(opened)
            shapes == [k \in 1..Len(RunLog) |-> Shape(RunLog[k])]
            expected == << << "user", None >> >> \o CallGroups(opened, n)
            last == RunLog[Len(RunLog)]
        IN  /\ \/ shapes = expected
               \/ /\ shapes = expected \o << << "assistant", None >> >>
                  /\ n >= 1 /\ Exhausted(n) /\ FinalCalls(opened[n]) = << >>
                  /\ last.content = Some(StreamText(opened[n]))
                  /\ last.content # Some("")
            /\ \A j \in 1..(n - 1) : Exhausted(j) /\ FinalCalls(opened[j]) # << >>
            /\ pc = "loop" => stream = << >>

C5_Witness ==
    /\ pc = "done"
    /\ Len(Opened) = 2
    /\ Len(FinalCalls(Opened[1])) = 2
    /\ Len(RunLog) = 5
    /\ RunLog[5].content = Some("hello world")

----------------------------------------------------------------------------
RECURSIVE WithoutMarker(_)
WithoutMarker(items) ==
    IF items = << >> THEN << >>
    ELSE IF items[1] = MaxIterationsMarker THEN WithoutMarker(Tail(items))
    ELSE << items[1] >> \o WithoutMarker(Tail(items))

(* C6: for a stream that emits the content chunks c1..cn and finishes       *)
(* without tool calls, run() yields exactly c1, ..., cn, each as its own    *)
(* item, in the order the provider emitted them.                            *)
C6_YieldsEachChunk ==
    (pc = "done" /\ Len(Opened) = 1 /\ FinalCalls(Opened[1]) = << >>) =>
        WithoutMarker(yielded) = ContentChunks(Opened[1])

----------------------------------------------------------------------------
(* the last stream of the run ended with no tool call and non-empty text *)
EndedWithText ==
    /\ pc # "idle"
    /\ Len(Opened) >= 1
    /\ Exhausted(Len(Opened))
    /\ FinalCalls(Opened[Len(Opened)]) = << >>
    /\ StreamText(Opened[Len(Opened)]) # ""

TextMessages(log) ==
    { k \in 1..Len(log) : log[k].role = "assistant" /\ ~IsCallMessage(log[k]) }

FinalMessageLogged ==
    LET last == messages[Len(messages)] IN
        /\ last.role = "assistant"
        /\ last.content = Some(StreamText(Opened[Len(Opened)]))
        /\ last.tool_calls = None
        /\ TextMessages(RunLog) = { Len(RunLog) }

(* C7 as stated: the final assistant message is in the log by the time the  *)
(* host has received the final text.                                        *)
C7_LoggedWhenHostHasText ==
    (EndedWithText /\ pc \in {"yield_text", "after_loop", "yield_marker", "done"})
        => FinalMessageLogged

(* C7, amended: when a stream ends with no tool calls and non-empty text,   *)
(* no further chat request is made; exactly one assistant message is        *)
(* appended for that iteration, when the host resumes run() after having    *)
(* received the text: it is not in the log while run() is suspended at the  *)
(* yield, and from the resumption until run() returns it is the last        *)
(* message of the log, its content the concatenation of the stream's        *)
(* content chunks, with no tool_calls.                                      *)
C7_LoggedWhenRunResumes ==
    EndedWithText =>
        /\ pc \in {"yield_text", "after_loop", "yield_marker", "done", "cancelled"}
        /\ pc \in {"after_loop", "yield_marker", "done"} => FinalMessageLogged
        /\ pc = "yield_text" => TextMessages(RunLog) = { }
        /\ yielded # << >> /\ yielded[1] = StreamText(Opened[Len(Opened)])

C7_Witness ==
    /\ EndedWithText
    /\ pc = "done"
    /\ Len(Opened) = 2
    /\ FinalMessageLogged
    /\ messages[Len(messages)].content = Some("hello world")

----------------------------------------------------------------------------
AllStreamsCalledTools == \A j \in 1..Len(Opened) : FinalCalls(Opened[j]) # << >>

RECURSIVE EventsOfKind(_, _)
EventsOfKind(evs, kind) ==
    IF evs = << >> THEN << >>
    ELSE IF evs[1][1] = kind THEN << evs[1][2] >> \o EventsOfKind(Tail(evs), kind)
    ELSE EventsOfKind(Tail(evs), kind)

RECURSIVE CallIdsUpTo(_)
CallIdsUpTo(j) ==
    IF j = 0 THEN << >>
    ELSE CallIdsUpTo(j - 1)
         \o [c \in 1..Len(FinalCalls(Opened[j])) |-> FinalCalls(Opened[j])[c].id]

IterationCapKept ==
    /\ Len(Opened) <= max_tool_iterations
    /\ (pc = "done" /\ AllStreamsCalledTools) =>
          /\ Len(Opened) = max_tool_iterations
          /\ EventsOfKind(events, "execute") = CallIdsUpTo(Len(Opened))
          /\ yielded # << >>
          /\ yielded[Len(yielded)] = MaxIterationsMarker

(* C8: a run() never opens more than max_tool_iterations streams (10 by     *)
(* default) and terminates when every stream is finite and every handler    *)
(* returns; if every stream carries a tool call, run() opens exactly        *)
(* max_tool_iterations streams, dispatches the calls of each, and the last  *)
(* item it yields is the marker.                                            *)
C8_IterationCap == [] IterationCapKept /\ (~Idle ~> Idle)

C8_Witness ==
    /\ pc = "done"
    /\ max_tool_iterations = DefaultMaxToolIterations
    /\ AllStreamsCalledTools
    /\ Len(Opened) = DefaultMaxToolIterations
    /\ Len(EventsOfKind(events, "execute")) = DefaultMaxToolIterations
    /\ yielded = << MaxIterationsMarker >>

(* C9: the marker is yielded only when every one of the max_tool_iterations *)
(* streams of the run ended with tool calls; a run whose last stream        *)
(* carried no tool call returns without the marker, also when that stream   *)
(* is the one numbered max_tool_iterations.                                 *)
C9_MarkerOnlyWhenCapReached ==
    (\E k \in 1..Len(yielded) : yielded[k] = MaxIterationsMarker) =>
        (Len(Opened) = max_tool_iterations /\ AllStreamsCalledTools)

(* the fragments received so far, in arrival order *)
RECURSIVE FragmentsOf(_)
FragmentsOf(lines) ==
    IF lines = << >> THEN << >>
    ELSE LET l == lines[Len(lines)] IN
         FragmentsOf(SubSeq(lines, 1, Len(lines) - 1))
             \o (IF l.kind = "delta" /\ l.tool_calls # None THEN l.tool_calls[1] ELSE << >>)

(* the last value given for a field of an index, "" when none was given *)
RECURSIVE LastSupplied(_, _, _)
LastSupplied(frags, idx, field) ==
    IF frags = << >> THEN ""
    ELSE LET f == frags[Len(frags)] IN
         IF f.index = idx /\ f[field] # None THEN f[field][1]
         ELSE LastSupplied(SubSeq(frags, 1, Len(frags) - 1), idx, field)

(* the argument pieces of an index, joined in arrival order *)
RECURSIVE JoinedArguments(_, _)
JoinedArguments(frags, idx) ==
    IF frags = << >> THEN << >>
    ELSE LET f == frags[Len(frags)] IN
         JoinedArguments(SubSeq(frags, 1, Len(frags) - 1), idx)
             \o (IF f.index = idx /\ f.arguments # None THEN f.arguments[1] ELSE << >>)

ExpectedCall(frags, idx) ==
    LET parsed == json_loads(JoinedArguments(frags, idx)) IN
        ToolCall(LastSupplied(frags, idx, "id"),
                 LastSupplied(frags, idx, "name"),
                 IF parsed = None THEN EmptyObject ELSE parsed[1])

FinishLineAfterFragments ==
    /\ lines_in # << >>
    /\ lines_in[Len(lines_in)].kind = "delta"
    /\ lines_in[Len(lines_in)].finish_reason # None
    /\ FragmentsOf(lines_in) # << >>

----------------------------------------------------------------------------
ChunksWithCalls == { k \in 1..Len(chunks_out) : chunks_out[k].tool_calls # None }

(* C11: in one response stream at most one emitted StreamChunk carries      *)
(* tool_calls, and once the stream has ended it is the last chunk emitted;  *)
(* for every line sequence, also with several finish_reason lines or with   *)
(* lines after the finish_reason line.                                      *)
C11_SingleFinalToolCallChunk ==
    /\ Cardinality(ChunksWithCalls) <= 1
    /\ stream_done => ChunksWithCalls \subseteq { Len(chunks_out) }

----------------------------------------------------------------------------
IsWellFormed(line) == line.kind # "malformed"

(* the buffers after a sequence of lines, computed in one pass *)
RECURSIVE BuffersAfter(_)
BuffersAfter(lines) ==
    IF lines = << >> THEN << >>
    ELSE LET l == lines[Len(lines)]
             before == BuffersAfter(SubSeq(lines, 1, Len(lines) - 1))
         IN  IF l.kind = "delta" /\ l.tool_calls # None
             THEN ApplyFragments(before, l.tool_calls[1])
             ELSE before

(* the chunks emitted for a sequence of lines, computed in one pass *)
RECURSIVE ChunksAfter(_)
ChunksAfter(lines) ==
    IF lines = << >> THEN << >>
    ELSE LET l == lines[Len(lines)]
             before == ChunksAfter(SubSeq(lines, 1, Len(lines) - 1))
             bufs == BuffersAfter(lines)
         IN  IF l.kind = "delta"
             THEN Append(before,
                         StreamChunk(l.content,
                                     IF l.finish_reason # None /\ bufs # << >>
                                     THEN Some(ParsedCalls(bufs)) ELSE None,
                                     l.finish_reason))
             ELSE before

MalformedJustRead ==
    /\ lines_in' # lines_in
    /\ lines_in'[Len(lines_in')].kind = "malformed"

(* C12: a data line whose payload is not valid JSON is skipped: reading it  *)
(* does not end the stream and changes neither the tool-call buffers nor    *)
(* the chunks emitted, lines after it are still processed, and the buffers  *)
(* and the chunks emitted are those of the same lines with the malformed    *)
(* ones removed.                                                            *)
C12_MalformedLineSkipped ==
    /\ [] (LET kept == SelectSeq(lines_in, IsWellFormed) IN
              /\ chunks_out = ChunksAfter(kept)
              /\ tool_call_buffers = BuffersAfter(kept))
    /\ [][MalformedJustRead =>
              /\ stream_done' = FALSE
              /\ tool_call_buffers' = tool_call_buffers
              /\ chunks_out' = chunks_out]_vars

(* a malformed line between two argument pieces, then the finish line that  *)
(* emits the call assembled across it                                       *)
C12_Witness ==
    /\ lines_in = << Delta(None, Some(<< FragOpen >>), None), Malformed,
                     Delta(None, Some(<< FragClose >>), Some("tool_calls")) >>
    /\ chunks_out[Len(chunks_out)].tool_calls =
          Some(<< ToolCall("", "", JsonObject(<< << "a", JsonNumber(<< "1" >>) >> >>)) >>)

----------------------------------------------------------------------------
(* the last execute_async call *)
Dispatch == dispatched[1]

IsUnknownToolResult(d) ==
    d.result = UnknownToolResult(d.tools, d.call, _normalize_tool_name(d.call.name))

(* C13: with a tool registered as write_file, execute_async resolves each   *)
(* of the names WriteFile, Write_File and WRITE_FILE to that tool: the      *)
(* result is not the unknown-tool error, and the handler entered (when the  *)
(* arguments fit it) is that tool's handler.                                *)
C13_NameVariantsResolve ==
    (/\ dispatched # None
     /\ N_write_file \in DOMAIN Dispatch.tools
     /\ Dispatch.call.name \in { N_WriteFile, N_Write_File, N_WRITE_FILE })
        => /\ ~IsUnknownToolResult(Dispatch)
           /\ Dispatch.raised # "TypeError" =>
                 /\ Dispatch.entered
                 /\ Dispatch.invoked.handler = Dispatch.tools[N_write_file].handler

----------------------------------------------------------------------------
(* the key at position i is the last of the arguments with its canonical key *)
LastWithCanonicalKey(arguments, i) ==
    \A j \in (i + 1)..Len(arguments) :
        CanonicalKey(arguments[j][1]) # CanonicalKey(arguments[i][1])

(* C14: with write_file registered, execute_async on WriteFile with         *)
(* {filePath: a, content: x} does what it does on write_file with           *)
(* {file_path: a, content: x}: the same handler is entered with the same    *)
(* keyword arguments and the content and is_error returned are equal; and   *)
(* whenever a handler is entered, the value of every key of the alias table *)
(* is received under its canonical key (the last such key's value when      *)
(* several keys of the call share the canonical key).                       *)
C14_AliasesDispatchIdentically ==
    dispatched # None =>
        /\ (/\ N_write_file \in DOMAIN Dispatch.tools
            /\ Dispatch.call.name = N_WriteFile
            /\ Dispatch.call.arguments = ArgsCamel) =>
              LET same == ToolRegistry_execute_async(
                              Dispatch.tools,
                              ToolCall(Dispatch.call.id, N_write_file, ArgsCanonical))
              IN  /\ Dispatch.entered /\ same.entered
                  /\ Dispatch.invoked = same.invoked
                  /\ Dispatch.result.content = same.result.content
                  /\ Dispatch.result.is_error = same.result.is_error
        /\ Dispatch.entered =>
              \A i \in 1..Len(Dispatch.call.arguments) :
                  LET key == Dispatch.call.arguments[i][1] IN
                      (AliasGet(key) # None
                       /\ LastWithCanonicalKey(Dispatch.call.arguments, i)) =>
                          /\ AliasGet(key)[1] \in DictKeys(Dispatch.invoked.kwargs)
                          /\ DictGet(Dispatch.invoked.kwargs, AliasGet(key)[1])
                                = Dispatch.call.arguments[i][2]

C14_Witness ==
    /\ dispatched # None
    /\ N_write_file \in DOMAIN Dispatch.tools
    /\ Dispatch.tools[N_write_file] = WriteFileTool
    /\ Dispatch.call.name = N_WriteFile
    /\ Dispatch.call.arguments = ArgsCamel
    /\ Dispatch.invoked = [handler |-> "write_file_handler", kwargs |-> ArgsCanonical]
    /\ ~Dispatch.result.is_error

----------------------------------------------------------------------------
Occurs(part, text) ==
    \E k \in 1..(Len(text) - Len(part) + 1) : SubSeq(text, k, k + Len(part) - 1) = part

(* the text of the error of a failure result *)
ErrorText(result) == DictGet(result.content[2], "error")

(* what the error text says after "Available tools: " *)
ListedTools(text) ==
    LET at == CHOOSE k \in 1..Len(text) : text[k] = "'). Available tools: "
    IN  SubSeq(text, at + 1, Len(text))

NotRegistered(d) ==
    /\ _normalize_tool_name(d.call.name) \notin DOMAIN d.tools
    /\ d.call.name \notin DOMAIN d.tools

(* C15: when neither the normalized nor the original name is registered,    *)
(* execute_async enters no handler and returns a ToolResult with is_error   *)
(* true and the call's id, whose error text lists every name registered     *)
(* at that moment.                                                          *)
C15_UnknownToolListsRegistered ==
    (dispatched # None /\ NotRegistered(Dispatch)) =>
        /\ ~Dispatch.entered
        /\ Dispatch.invoked = NoHandler
        /\ Dispatch.result.is_error
        /\ Dispatch.result.tool_call_id = Dispatch.call.id
        /\ \A name \in DOMAIN Dispatch.tools :
              Occurs(name, ListedTools(ErrorText(Dispatch.result)))

C15_Witness ==
    /\ dispatched # None
    /\ Dispatch.call.name = N_missing
    /\ DOMAIN Dispatch.tools = { N_write_file, N_ReadFile, N_explode }
    /\ ListedTools(ErrorText(Dispatch.result))
          = N_ReadFile \o << ", " >> \o N_explode \o << ", " >> \o N_write_file

----------------------------------------------------------------------------
ReturnedMapWithError(d) ==
    /\ d.returned # None
    /\ d.returned[1].is_map
    /\ "error" \in DictKeys(d.returned[1].value)

----------------------------------------------------------------------------
(* The edit engine: apply_edit as edit_file called it *)

(* the last call was an edit_file that came to apply_edit *)
Applied ==
    /\ last_call # None
    /\ last_call[1].tool = "edit_file"
    /\ last_call[1].applied # None

EditContent == last_call[1].before[1]
EditOld == last_call[1].old_string
EditNew == last_call[1].new_string
EditSuccess == last_call[1].applied[1][1]
EditNewContent == last_call[1].applied[1][2]
EditStrategy == last_call[1].applied[1][3]

(* the positions, from 0, at which old occurs in content *)
Occurrences(content, old) ==
    { at \in 0..Len(content) :
        /\ at + Len(old) <= Len(content)
        /\ \A k \in 1..Len(old) : content[at + k] = old[k] }

(* the occurrences that content.count(old) counts: those met scanning from *)
(* the left, each one starting where the one before it has ended           *)
RECURSIVE CountedFrom(_, _, _)
CountedFrom(content, old, at) ==
    IF at + Len(old) > Len(content) THEN { }
    ELSE IF at \in Occurrences(content, old)
    THEN { at } \cup CountedFrom(content, old, at + (IF old = << >> THEN 1 ELSE Len(old)))
    ELSE CountedFrom(content, old, at + 1)

Counted(content, old) == CountedFrom(content, old, 0)

Prefix(content, at) == [k \in 1..at |-> content[k]]
Suffix(content, at) == [k \in 1..(Len(content) - at) |-> content[at + k]]

Exact == << "e", "x", "a", "c", "t" >>

(* C17: when old occurs exactly once in content (content.count(old) = 1),  *)
(* apply_edit returns success with strategy "exact" and the content with   *)
(* that occurrence replaced by new: the text before it, new, the text      *)
(* after it.                                                               *)
C17_ExactUniqueReplaced ==
    Applied =>
        \A at \in Counted(EditContent, EditOld) :
            Counted(EditContent, EditOld) = { at } =>
                /\ EditSuccess
                /\ EditStrategy = Exact
                /\ EditNewContent = Prefix(EditContent, at) \o EditNew
                                      \o Suffix(EditContent, at + Len(EditOld))

(* an occurrence in the middle of the content was replaced by another text *)
C17_Witness ==
    /\ Applied
    /\ EditNew = << "b" >>
    /\ Len(EditOld) = 2
    /\ Occurrences(EditContent, EditOld) = { 1 }
    /\ Len(EditContent) = 4
    /\ EditSuccess
    /\ EditNewContent = << EditContent[1], "b", EditContent[4] >>

(* a span content[from:to] that equals old up to the trailing whitespace *)
(* of each line                                                          *)
MatchedRegions(content, old) ==
    { span \in (0..Len(content)) \X (0..Len(content)) :
        /\ span[1] <= span[2]
        /\ trim_lines(Slice(content, span[1], span[2])) = trim_lines(old) }

LineTrimmed == << "l", "i", "n", "e", "_", "t", "r", "i", "m", "m", "e", "d" >>

(* old does not occur in content and occurs exactly once once trailing *)
(* whitespace is stripped from every line of both                      *)
OnlyLineTrimmedMatches(content, old) ==
    /\ Counted(content, old) = { }
    /\ Cardinality(Counted(trim_lines(content), trim_lines(old))) = 1

(* C18: when old does not occur in content but occurs exactly once after   *)
(* trailing whitespace is stripped from every line of both, apply_edit     *)
(* succeeds via "line_trimmed" and returns the content with a region that  *)
(* equals old up to per-line trailing whitespace replaced by new, every    *)
(* character outside the region kept, also when the match starts or ends   *)
(* in the middle of a line.                                                *)
C18_LineTrimmedReplacesRegion ==
    (Applied /\ OnlyLineTrimmedMatches(EditContent, EditOld)) =>
        /\ EditSuccess
        /\ EditStrategy = LineTrimmed
        /\ \E span \in MatchedRegions(EditContent, EditOld) :
               EditNewContent = Prefix(EditContent, span[1]) \o EditNew
                                  \o Suffix(EditContent, span[2])

(* C19 as stated: whenever apply_edit(content, old, old) succeeds, by     *)
(* whichever strategy, the returned new_content equals content.           *)
C19_EditWithOldIsNoOp ==
    (Applied /\ EditNew = EditOld /\ EditSuccess) => EditNewContent = EditContent

(* C19: when apply_edit(content, old, old) succeeds, the returned          *)
(* new_content equals content if the strategy that succeeded is "exact";   *)
(* a fallback strategy succeeds only when old does not occur in content    *)
(* and puts old in the place of the text it matched, so the new_content    *)
(* it returns differs from content.                                        *)
C19_NoOpExactlyWhenExact ==
    (Applied /\ EditNew = EditOld /\ EditSuccess) =>
        /\ (EditStrategy = Exact) <=> (EditNewContent = EditContent)
        /\ EditStrategy # Exact =>
               /\ Counted(EditContent, EditOld) = { }
               /\ Occurrences(EditNewContent, EditOld) # { }

(* old, of two characters, replaced by itself in the middle of the content *)
C19_Witness ==
    /\ Applied
    /\ EditNew = EditOld
    /\ Len(EditOld) = 2
    /\ EditSuccess
    /\ EditStrategy = Exact
    /\ Occurrences(EditContent, EditOld) = { 1 }
    /\ Len(EditContent) = 4
    /\ EditNewContent = EditContent

(* the decimal digits of a number below 100 *)
Decimal(n) ==
    IF n < 10 THEN << Digits[n + 1] >>
    ELSE << Digits[(n \div 10) + 1], Digits[(n % 10) + 1] >>

TimesInFile(n) ==
    << "String appears " >> \o Decimal(n)
      \o << " times in file. Include more surrounding context to make it unique." >>

(* C20: when old occurs more than once in content (content.count(old) > 1) *)
(* apply_edit fails with the strategy text exact_multiple_<count>, the     *)
(* text of no fallback strategy, and returns the content unchanged;        *)
(* edit_file returns FAILED with that count in its error, writes nothing   *)
(* and leaves the file as it was.                                          *)
C20_AmbiguousEditRejected ==
    (Applied /\ Cardinality(Counted(EditContent, EditOld)) > 1) =>
        /\ ~EditSuccess
        /\ EditNewContent = EditContent
        /\ EditStrategy = ExactMultiplePrefix
                            \o Decimal(Cardinality(Counted(EditContent, EditOld)))
        /\ last_call[1].result.status = "FAILED"
        /\ last_call[1].result.error
             = TimesInFile(Cardinality(Counted(EditContent, EditOld)))
        /\ last_call[1].writes = << >>
        /\ file = last_call[1].before

(* an old that occurs twice was to be replaced by another text *)
C20_Witness ==
    /\ Applied
    /\ EditNew = << "b" >>
    /\ EditOld = << "a", " " >>
    /\ EditContent = << "a", " ", "a", " " >>
    /\ ~EditSuccess
    /\ last_call[1].result.error = TimesInFile(2)
    /\ file = Some(EditContent)

----------------------------------------------------------------------------
(* The safety gate as run_command consulted it *)

RunCommandCalled == gate_call # None /\ gate_call[1].op = "run_command"

(* the directory run_command worked in *)
RanIn == IF gate_call[1].working_dir = None THEN cwd
         ELSE gate_call[1].working_dir[1]

RanFlagged == check_dangerous_command(gate_call[1].command, RanIn)[1]

(* the callback that was set was called once, with a prompt that shows the *)
(* command, and returned a true value                                      *)
ConfirmedByCallback ==
    /\ gate_call[1].callback # None
    /\ gate_call[1].callback[1] \in { "returns True", "returns 1" }
    /\ Len(gate_call[1].returned.invoked) = 1
    /\ gate_call[1].returned.invoked[1][1] = gate_call[1].callback[1]
    /\ find(gate_call[1].returned.invoked[1][2], gate_call[1].command) # -1

RmDenied ==
    << "Command blocked: ", "removes files/directories", ". ",
       "No confirmation callback available" >>

(* C21: a command that check_dangerous_command flags is handed to a       *)
(* subprocess only if the confirmation callback was called for it and     *)
(* returned a true value; with no callback, or one that returns a false   *)
(* value or raises, run_command returns DENIED with return code -1 and    *)
(* asks for no subprocess; for "rm -rf /tmp/x" with no callback the error *)
(* is "Command blocked: removes files/directories. No confirmation        *)
(* callback available"                                                    *)
C21_FlaggedNeverSpawnedUnconfirmed ==
    RunCommandCalled /\ RanFlagged =>
        /\ gate_call[1].returned.spawned # << >> => ConfirmedByCallback
        /\ ~ConfirmedByCallback =>
              /\ gate_call[1].returned.status = "DENIED"
              /\ gate_call[1].returned.return_code = -1
              /\ gate_call[1].returned.spawned = << >>
        /\ gate_call[1].command = << "r", "m", " ", "-", "r", "f", " ", "/", "t", "m", "p", "/", "x" >> /\ gate_call[1].callback = None
              => gate_call[1].returned.error = Some(RmDenied)

(* run_command("rm -rf /tmp/x") was called with no callback set and denied *)
C21_Witness ==
    /\ RunCommandCalled
    /\ gate_call[1].command = << "r", "m", " ", "-", "r", "f", " ", "/", "t", "m", "p", "/", "x" >>
    /\ gate_call[1].callback = None
    /\ gate_call[1].returned.status = "DENIED"

(* a flagged command was confirmed by the callback and run *)
C21_WitnessConfirmed ==
    /\ RunCommandCalled
    /\ RanFlagged
    /\ gate_call[1].returned.spawned = << << gate_call[1].command, RanIn >> >>

----------------------------------------------------------------------------
(* The safety gate as the filesystem tools consulted it *)

FileToolCalled == gate_call # None /\ gate_call[1].op \in FileTools

Sandboxed == FileToolCalled /\ gate_call[1].root_dir # None

(* the path given is classified as outside the sandbox root *)
ClassifiedOutside ==
    check_path_safety(gate_call[1].path, gate_call[1].root_dir[1], "access")[1]

(* the callback that was set was called once, with a prompt that shows the *)
(* path, and returned a true value                                         *)
ConfirmedByPathCallback ==
    /\ gate_call[1].callback # None
    /\ gate_call[1].callback[1] \in { "returns True", "returns 1" }
    /\ Len(gate_call[1].returned.invoked) = 1
    /\ gate_call[1].returned.invoked[1][1] = gate_call[1].callback[1]
    /\ find(gate_call[1].returned.invoked[1][2], gate_call[1].path) # -1
(* the reason the gate gives for a denial, by what the slot held *)
DenialReason ==
    IF gate_call[1].callback = None THEN "No confirmation callback available"
    ELSE IF gate_call[1].callback[1] = "raises"
    THEN "Confirmation failed: error in callback"
    ELSE "Denied by user"

SandboxDenied ==
    /\ gate_call[1].returned.status = "DENIED"
    /\ gate_call[1].returned.io = << >>

(* C22 as stated: a filesystem tool with a sandbox root, given a path      *)
(* classified outside it and not confirmed, returns DENIED and does no I/O, *)
(* and the error of read_file("/etc/passwd") is exactly                     *)
(* "Access denied: /etc/passwd is outside working directory."               *)
C22_DeniedWithBareError ==
    Sandboxed /\ ClassifiedOutside /\ ~ConfirmedByPathCallback =>
        /\ SandboxDenied
        /\ gate_call[1].op = "read_file" /\ gate_call[1].path = << "/", "e", "t", "c", "/", "p", "a", "s", "s", "w", "d" >>
              => gate_call[1].returned.error
                 = << "Access denied: " >> \o gate_call[1].path
                   \o << " is outside working directory." >>

(* C22, amended: a filesystem tool with a sandbox root, given a path       *)
(* classified outside it and not confirmed, returns DENIED and does no      *)
(* read, write, directory creation or deletion; its error is                *)
(* "Access denied: <path> is outside working directory. " followed by the   *)
(* reason of the gate                                                       *)
C22_DeniedWithReason ==
    Sandboxed /\ ClassifiedOutside /\ ~ConfirmedByPathCallback =>
        /\ SandboxDenied
        /\ gate_call[1].returned.error
           = << "Access denied: " >> \o gate_call[1].path
             \o << " is outside working directory. ", DenialReason >>

(* read_file("/etc/passwd") with sandbox /work and no callback was denied *)
C22_Witness ==
    /\ Sandboxed
    /\ gate_call[1].op = "read_file"
    /\ gate_call[1].path = << "/", "e", "t", "c", "/", "p", "a", "s", "s", "w", "d" >>
    /\ gate_call[1].root_dir = Some(Root)
    /\ gate_call[1].callback = None
    /\ gate_call[1].returned.status = "DENIED"

(* the components of an absolute path *)
Components(path) == SelectSeq(split_slash(path), LAMBDA c : c # << >> /\ c # << "." >>)

(* path is the directory root or below it *)
UnderRoot(path, root) ==
    /\ Len(Components(root)) <= Len(Components(path))
    /\ SubSeq(Components(path), 1, Len(Components(root))) = Components(root)

(* the path is_path_inside_directory looked at *)
ClassifiedPath ==
    resolved_in(expanduser(gate_call[1].path), gate_call[1].root_dir[1])

(* C23: with a sandbox root R, every path a filesystem tool reads, writes, *)
(* creates or deletes is R or below R unless the confirmation callback      *)
(* returned true for the call, and the path the I/O is done on is the path  *)
(* that was classified, wherever the process is relative to R               *)
C23_IOOnlyOnClassifiedPathInRoot ==
    Sandboxed =>
        \A i \in 1..Len(gate_call[1].returned.io) :
            /\ UnderRoot(gate_call[1].returned.io[i][2], gate_call[1].root_dir[1])
               \/ ConfirmedByPathCallback
            /\ gate_call[1].returned.io[i][2] \in
                   { ClassifiedPath, parent(ClassifiedPath) }

(* the same with the process in the sandbox root: there the I/O stays in R *)
C23_IOInRootFromRoot ==
    Sandboxed /\ cwd = gate_call[1].root_dir[1] =>
        \A i \in 1..Len(gate_call[1].returned.io) :
            \/ UnderRoot(gate_call[1].returned.io[i][2], gate_call[1].root_dir[1])
            \/ ConfirmedByPathCallback

----------------------------------------------------------------------------
(* check_dangerous_command *)

CommandChecked == gate_call # None /\ gate_call[1].op = "check_dangerous_command"

InCatalog(command) ==
    \E n \in 1..Len(DANGEROUS_COMMAND_PATTERNS) :
        search(DANGEROUS_COMMAND_PATTERNS[n][1], command)

OnAllowlist(command) ==
    \E n \in 1..Len(SAFE_OUTSIDE_PATH_COMMANDS) :
        match(SAFE_OUTSIDE_PATH_COMMANDS[n], command)

(* a path token may start at g: at the start of the command, or after *)
(* whitespace or a quote                                              *)
TokenStart(s, g) == g = 1 \/ s[g - 1] \in PathLead

(* how long the head of a path token at g is: / and a path character,  *)
(* ~, ../ or ..\, a drive letter with :/ or :\, \\ and a path character; *)
(* 0 when there is none                                                 *)
HeadLength(s, g) ==
    IF s[g] = "~" THEN 1
    ELSE IF s[g] = "/" /\ g < Len(s) /\ lower_char(s[g + 1]) \in PathChars THEN 1
    ELSE IF g + 2 <= Len(s) /\ s[g] = "." /\ s[g + 1] = "." /\ s[g + 2] \in { "/", "\\" }
    THEN 3
    ELSE IF g + 2 <= Len(s) /\ lower_char(s[g]) \in Letters /\ s[g + 1] = ":"
            /\ s[g + 2] \in { "/", "\\" }
    THEN 3
    ELSE IF g + 2 <= Len(s) /\ s[g] = "\\" /\ s[g + 1] = "\\"
            /\ lower_char(s[g + 2]) \in PathChars
    THEN 2
    ELSE 0

(* the absolute, home-anchored, parent-escaping, drive and UNC path tokens *)
PathTokens(s) ==
    { SubSeq(s, g, RunEnd(s, g + HeadLength(s, g)) - 1) :
        g \in { h \in 1..Len(s) : TokenStart(s, h) /\ HeadLength(s, h) > 0 } }

FlaggedCommand(command, working_dir) ==
    \/ InCatalog(command)
    \/ /\ ~OnAllowlist(command)
       /\ \E token \in PathTokens(command) :
              ~is_path_inside_directory(token, working_dir)

CheckedIs(command, working_dir, flag) ==
    gate_call[1].command = command /\ gate_call[1].working_dir = working_dir
        => gate_call[1].returned[1] = flag

(* C24: check_dangerous_command(command, cwd) flags the command exactly     *)
(* when it matches a pattern of the dangerous catalog, on the allowlist or  *)
(* not, or it is not on the allowlist and one of its path tokens resolves   *)
(* outside cwd; "rm -rf /" and "git push --force" are flagged, "ls /etc"    *)
(* in /tmp is flagged, "git clone https://h/r /tmp/x" and                   *)
(* "echo /etc/passwd" are allowed                                           *)
C24_FlaggedExactlyWhen ==
    CommandChecked =>
        /\ gate_call[1].returned[1]
           <=> FlaggedCommand(gate_call[1].command, gate_call[1].working_dir)
        /\ gate_call[1].returned[1] <=> gate_call[1].returned[2] # None
        /\ CheckedIs(<< "r", "m", " ", "-", "r", "f", " ", "/" >>, << "/", "t", "m", "p" >>, TRUE)
        /\ CheckedIs(<< "r", "m", " ", "-", "r", "f", " ", "/" >>, Root, TRUE)
        /\ CheckedIs(<< "g", "i", "t", " ", "p", "u", "s", "h", " ", "-", "-", "f", "o", "r", "c", "e" >>, Root, TRUE)
        /\ CheckedIs(<< "l", "s", " ", "/", "e", "t", "c" >>, << "/", "t", "m", "p" >>, TRUE)
        /\ CheckedIs(<< "g", "i", "t", " ", "c", "l", "o", "n", "e", " ", "h", "t", "t", "p", "s", ":", "/", "/", "h", "/", "r", " ", "/", "t", "m", "p", "/", "x" >>, Root, FALSE)
        /\ CheckedIs(<< "e", "c", "h", "o", " ", "/", "e", "t", "c", "/", "p", "a", "s", "s", "w", "d" >>, Root, FALSE)

(* a command on the allowlist was flagged for a pattern of the catalog *)
C24_Witness ==
    /\ CommandChecked
    /\ gate_call[1].command = << "g", "i", "t", " ", "p", "u", "s", "h", " ", "-", "-", "f", "o", "r", "c", "e" >>
    /\ OnAllowlist(gate_call[1].command)
    /\ gate_call[1].returned[1]

(* a command was flagged for a path alone *)
C24_WitnessPath ==
    /\ CommandChecked
    /\ gate_call[1].command = << "l", "s", " ", "/", "e", "t", "c" >>
    /\ gate_call[1].working_dir = << "/", "t", "m", "p" >>
    /\ ~InCatalog(gate_call[1].command)
    /\ gate_call[1].returned[1]

(* a command on the allowlist with a path outside was let through *)
C24_WitnessAllowed ==
    /\ CommandChecked
    /\ gate_call[1].command = << "e", "c", "h", "o", " ", "/", "e", "t", "c", "/", "p", "a", "s", "s", "w", "d" >>
    /\ ~gate_call[1].returned[1]

----------------------------------------------------------------------------
(* Serialization of the conversation *)

(* C25: for every conversation reached through the public operations,     *)
(* from_dict(to_dict(c)) has the messages of c, message by message and    *)
(* attribute by attribute: role, content, tool_calls with id, name and     *)
(* arguments, tool_call_id and name                                        *)
C25_RoundTrip == from_dict(to_dict(messages)) = messages

(* the round trip keeps every message but for a list of tool calls that *)
(* is empty, which comes back as None                                   *)
C25_RoundTripButEmptyToolCalls ==
    /\ Len(from_dict(to_dict(messages))) = Len(messages)
    /\ \A i \in 1..Len(messages) :
           from_dict(to_dict(messages))[i]
           = IF messages[i].tool_calls = Some(<< >>)
             THEN [messages[i] EXCEPT !.tool_calls = None]
             ELSE messages[i]

----------------------------------------------------------------------------
(* The provider's session *)

(* openai_compatible.py 46-48 *)
get_correlation_id == _correlation_id

(* the step is a call of Agent.reset *)
ResetCalled ==
    /\ Len(session') = Len(session) + 1
    /\ session'[Len(session')].op = "reset"

ReturnedByReset == session'[Len(session')].id[1]

(* C26: a call of Agent.reset, whatever the log held, leaves the log as    *)
(* the single system message it was at construction and returns an id     *)
(* that differs from the id in force before the call and that              *)
(* get_correlation_id() returns from then on; no step other than a reset   *)
(* changes what get_correlation_id() returns                               *)
C26_ResetClearsAndRotates ==
    [][IF ResetCalled
       THEN /\ messages' = _initialize
            /\ ReturnedByReset # get_correlation_id
            /\ get_correlation_id' = ReturnedByReset
       ELSE get_correlation_id' = get_correlation_id]_vars

(* a reset was called on a log that held a message of the user, after an *)
(* earlier reset whose id is no longer the one in force                  *)
C26_Witness ==
    /\ Len(session) >= 2
    /\ session[Len(session)].op = "reset"
    /\ store_ops = 2
    /\ messages = _initialize
    /\ \E i \in 1..(Len(session) - 1) :
          /\ session[i].op = "reset"
          /\ session[i].id # Some(get_correlation_id)

ResetsBefore(log, i) == { j \in 1..(i - 1) : log[j].op = "reset" }

(* the id the session had when the i-th call was made: the one the last *)
(* reset before it returned, or the one of the construction             *)
InForceAt(log, i) ==
    IF ResetsBefore(log, i) = { }
    THEN _generate_correlation_id(0)
    ELSE log[CHOOSE j \in ResetsBefore(log, i) :
                \A k \in ResetsBefore(log, i) : k <= j].id[1]

(* C27: every request the provider has sent carries as x-correlation-id  *)
(* the session's id at the time it was sent, so the requests between two *)
(* resets carry one id and no request after a reset carries an earlier   *)
(* id                                                                    *)
C27_RequestsCarryCurrentId ==
    \A i \in 1..Len(session) :
        session[i].op = "request"
            => session[i].id = Some(InForceAt(session, i))

(* two chat() calls, the request of one sent before a reset and the *)
(* request of the other after it, on the same client                *)
C27_Witness ==
    \E j, k, l \in 1..Len(session) :
        /\ j < k /\ k < l
        /\ \A c \in 1..Len(session) : session[c].op = "chat" => c < j
        /\ session[j].op = "request"
        /\ session[k].op = "reset"
        /\ session[l].op = "request"
        /\ session[l].client = session[j].client
        /\ session[l].id = session[k].id
        /\ session[l].id # session[j].id

Chats(log) == { i \in 1..Len(log) : log[i].op = "chat" }

Closes(log) == { i \in 1..Len(log) : log[i].op = "close" }

(* the i-th call is the first chat() since the last close(), or since the *)
(* construction: no chat() lies between them                              *)
FirstChatSinceClose(log, i) ==
    \A j \in Chats(log) :
        j < i => \E k \in Closes(log) : j < k /\ k < i

(* the clients created so far *)
ClientsCreated(log) == { log[i].client[1] : i \in { j \in Chats(log) : log[j].created } }

(* the close() calls that closed the client *)
ClosedBy(log, client) == { k \in Closes(log) : log[k].client = Some(client) }

Live(log) == { c \in ClientsCreated(log) : ClosedBy(log, c) = { } }

(* the chat() that created the client *)
CreatedAt(log, client) ==
    CHOOSE i \in Chats(log) : log[i].created /\ log[i].client = Some(client)

(* the first close() after the chat() that created the client, if any *)
CloseEnding(log, client) ==
    { k \in Closes(log) :
        /\ CreatedAt(log, client) < k
        /\ \A l \in Closes(log) : CreatedAt(log, client) < l => k <= l }

(* C28: a chat() creates a client exactly when it is the first chat()    *)
(* since the construction or since the last close(), and every other     *)
(* chat() gets the client of the chat() before it; each client created   *)
(* is closed once by the first close() after its creation and by no      *)
(* other; a close() with no live client closes nothing; and at most one  *)
(* client is live, the one the provider holds                            *)
C28_ClientLifecycle ==
    /\ \A i \in Chats(session) :
          /\ session[i].created <=> FirstChatSinceClose(session, i)
          /\ ~session[i].created =>
                \E j \in Chats(session) :
                    /\ j < i
                    /\ \A k \in Chats(session) : k < i => k <= j
                    /\ session[i].client = session[j].client
    /\ \A c \in ClientsCreated(session) :
          ClosedBy(session, c) = CloseEnding(session, c)
    /\ \A k \in Closes(session) :
          session[k].client = None
              <=> ~\E i \in Chats(session) :
                     /\ i < k
                     /\ \A l \in Closes(session) : ~(i < l /\ l < k)
    /\ Cardinality(Live(session)) <= 1
    /\ \A c \in ClientsCreated(session) : c \in Live(session) <=> _client = Some(c)
    /\ _client # None => _client[1] \in ClientsCreated(session)

(* chat() twice on one client, close() twice, then a chat() that creates *)
(* the second client, which is live while the first is closed            *)
C28_Witness ==
    /\ Len(session) = 5
    /\ session[1].op = "chat" /\ session[1].created
    /\ session[2].op = "chat" /\ session[2].client = Some(1)
    /\ session[3].op = "close" /\ session[3].client = Some(1)
    /\ session[4].op = "close" /\ session[4].client = None
    /\ session[5].op = "chat" /\ session[5].client = Some(2)
    /\ _client = Some(2)

----------------------------------------------------------------------------
(* The confirmation callback slot *)

(* the step is a call of confirm_dangerous_operation *)
GateConsulted ==
    /\ gate_call' # gate_call
    /\ gate_call'[1].op = "confirm_dangerous_operation"

(* the step is a call of set_confirmation_callback *)
CallbackSet ==
    /\ gate_call' # gate_call
    /\ gate_call'[1].op = "set_confirmation_callback"

(* the callback the slot holds before the step is the one callback the *)
(* step calls, and it returns a true value                             *)
SlotConsents ==
    /\ _confirm_callback # None
    /\ _confirm_callback[1] \in { "returns True", "returns 1" }
    /\ Len(gate_call'[1].returned.invoked) = 1
    /\ gate_call'[1].returned.invoked[1][1] = _confirm_callback[1]

(* no callback is called but the one the slot holds before the step *)
OnlySlotConsulted ==
    \A i \in 1..Len(gate_call'[1].returned.invoked) :
        /\ _confirm_callback # None
        /\ gate_call'[1].returned.invoked[i][1] = _confirm_callback[1]

(* set_confirmation_callback leaves in the slot what it was given, *)
(* whatever the slot held                                          *)
LastWriterWins ==
    CallbackSet => _confirm_callback' = gate_call'[1].callback

----------------------------------------------------------------------------
(* The run after the host's cancellation signal *)

(* ESC was pressed in this run while a stream was read or a tool ran, and *)
(* the run has not ended                                                  *)
EscapePending ==
    /\ cancel_requested
    /\ escape_pc \in { "stream", "tools" }
    /\ ~Idle

(* the step opens a provider.chat stream *)
StreamOpened ==
    /\ Len(events') = Len(events) + 1
    /\ events'[Len(events')][1] = "open"

(* the step dispatches a tool call *)
ToolDispatched ==
    /\ Len(events') = Len(events) + 4
    /\ events'[Len(events) + 2][1] = "execute"

(* the step hands the marker to the host and the host takes it *)
MarkerDelivered ==
    /\ pc = "yield_marker"
    /\ pc' = "done"

(* C30: once ESC has set the cancel flag while a stream is read or a tool *)
(* runs, the run opens no further stream, dispatches no tool call after a *)
(* stream it was reading, keeps the messages it appended and does not     *)
(* deliver the marker                                                     *)
C30_NoWorkAfterEscape ==
    [][EscapePending =>
          /\ ~StreamOpened
          /\ escape_pc = "stream" => ~ToolDispatched
          /\ ~MarkerDelivered
          /\ Len(messages') >= Len(messages)
          /\ SubSeq(messages', 1, Len(messages)) = messages]_vars

----------------------------------------------------------------------------
(* The run when the provider fails *)

(* C31: when reading the stream of iteration k raises, the error is the    *)
(* last thing that happens in the run: run() is left with k streams        *)
(* opened and none after it, nothing is yielded or dispatched afterwards,  *)
(* every message the run appended is in the log, and the log satisfies     *)
(* tool-call pairing                                                       *)
C31_ProviderErrorEndsRun ==
    \A p \in 1..Len(events) :
        events[p][1] = "raised" =>
            /\ p = Len(events)
            /\ pc = "failed"
            /\ Len(EventsOfKind(events, "open")) = events[p][2]
            /\ Len(RunLog) = Len(EventsOfKind(events, "append"))
            /\ ToolCallPairing(messages)

(* the second stream of a run failed after a chunk of it was read, the *)
(* calls of the first stream being answered in the log                 *)
C31_Witness ==
    /\ pc = "failed"
    /\ iteration = 2
    /\ Len(events) >= 2
    /\ events[Len(events) - 1][1] = "chunk"
    /\ \E i \in run_start..Len(messages) :
          IsCallMessage(messages[i]) /\ Len(messages[i].tool_calls[1]) = 2
    /\ messages[Len(messages)].role = "tool"

----------------------------------------------------------------------------
(* The events around each tool call *)

IsToolEvent(e) ==
    \/ e[1] \in { "on_tool_start", "execute", "on_tool_end" }
    \/ e[1] = "append" /\ e[2] = "tool"

(* what happened around the tool calls of this run, in order *)
ToolEvents == SelectSeq(events, IsToolEvent)

(* the four events of the g-th tool call of the run, in order *)
ToolEventGroup(t, g, id) ==
    /\ t[4 * g - 3] = Ev("on_tool_start", id)
    /\ t[4 * g - 2] = Ev("execute", id)
    /\ t[4 * g - 1] = Ev("append", "tool")
    /\ t[4 * g] = Ev("on_tool_end", id)

ToolMessages(log) == SelectSeq(log, LAMBDA m : m.role = "tool")

(* C32: around the tool calls of a run the events are, call after call in *)
(* the order of the calls of each stream, on_tool_start, the handler's    *)
(* execution, the append of the result to the log and on_tool_end: the    *)
(* four events of a call are over before on_tool_start of the next, and   *)
(* no handler starts between the start and the end of another             *)
C32_ToolEventsInOrder ==
    /\ Len(ToolEvents) % 4 = 0
    /\ Len(ToolEvents) <= 4 * Len(CallIdsUpTo(Len(Opened)))
    /\ \A g \in 1..(Len(ToolEvents) \div 4) :
          ToolEventGroup(ToolEvents, g, CallIdsUpTo(Len(Opened))[g])
    /\ EventsOfKind(events, "clear") = << >> =>
          /\ Len(ToolMessages(RunLog)) = Len(ToolEvents) \div 4
          /\ \A g \in 1..(Len(ToolEvents) \div 4) :
                ToolMessages(RunLog)[g].tool_call_id
                    = Some(CallIdsUpTo(Len(Opened))[g])

(* a run that has dispatched the two calls of one stream and the call of *)
(* the next                                                               *)
C32_Witness ==
    /\ Len(ToolEvents) = 12
    /\ Len(Opened) = 2
    /\ Len(FinalCalls(Opened[1])) = 2
    /\ ToolEvents[5][2] # ToolEvents[1][2]

----------------------------------------------------------------------------
(* The failure execute_async reports for an exception *)

(* the normalized arguments do not fit the handler's signature: the call *)
(* raised a TypeError before the handler's body was entered              *)
ArgumentMismatch(d) == d.raised = "TypeError" /\ ~d.entered

(* C33: execute_async returns the "Invalid arguments" failure, with the   *)
(* names of the arguments provided and the hint, exactly when the         *)
(* normalized arguments do not fit the handler's signature; an exception  *)
(* raised in the handler's body, a TypeError included, gives the "Tool    *)
(* execution failed" failure                                              *)
C33_InvalidArgumentsOnlyOnMismatch ==
    (dispatched # None /\ ~IsUnknownToolResult(Dispatch)) =>
        /\ Dispatch.result = InvalidArgumentsResult(Dispatch.call)
              <=> ArgumentMismatch(Dispatch)
        /\ (Dispatch.raised # "" /\ Dispatch.entered)
              => Dispatch.result = ExecutionFailedResult(Dispatch.call)

----------------------------------------------------------------------------
(* The text edit_file removes when new_string is empty *)

(* the last call was edit_file with an empty new_string and a non-empty *)
(* old_string that occurs exactly once in the file, and it wrote        *)
ExactDeletion ==
    IF last_call = None THEN FALSE
    ELSE /\ last_call[1].tool = "edit_file"
         /\ last_call[1].new_string = << >>
         /\ last_call[1].old_string # << >>
         /\ last_call[1].before # None
         /\ last_call[1].writes # << >>
         /\ count(last_call[1].before[1], last_call[1].old_string) = 1

(* the text without its characters from position s up to position e *)
Without(text, s, e) == Slice(text, 0, s) \o From(text, e)

(* the lines of the match at pos: from the start of the line of its first *)
(* character to the end of the line of its last one, that line's newline  *)
(* included                                                               *)
MatchLinesStart(content, pos) == rfind_char(content, "\n", pos) + 1

MatchLinesEnd(content, old_string, pos) ==
    LineEnd(content, find_from(content, << "\n" >>, pos + Len(old_string) - 1))

(* written is content without one region that holds the match and lies *)
(* within the lines of the match                                        *)
RemovedWithinLines(content, old_string, written, pos) ==
    \E s \in MatchLinesStart(content, pos)..pos,
       e \in (pos + Len(old_string))..MatchLinesEnd(content, old_string, pos) :
        written = Without(content, s, e)

(* C34: an edit_file call with an empty new_string and an exact unique    *)
(* match writes the file without the matched text and, at most, without   *)
(* the rest of the line or lines the match lies on: no character of       *)
(* another line is removed, so a blank line that follows an old_string    *)
(* ending in a newline is kept                                            *)
C34_DeletionStaysOnMatchLines ==
    ExactDeletion =>
        RemovedWithinLines(last_call[1].before[1], last_call[1].old_string,
                           last_call[1].writes[1],
                           find(last_call[1].before[1], last_call[1].old_string))

----------------------------------------------------------------------------
(* The last strategy of the cascade *)

(* the last call was edit_file on a file in which old_string does not   *)
(* occur, the first five strategies found no match, and old_string with *)
(* its whitespace collapsed occurs once in the collapsed content        *)
OnlyWhitespaceNormalizedMatches ==
    IF last_call = None THEN FALSE
    ELSE /\ last_call[1].tool = "edit_file"
         /\ last_call[1].applied # None
         /\ count(last_call[1].before[1], last_call[1].old_string) = 0
         /\ find_best_match(last_call[1].before[1], last_call[1].old_string).success
         /\ find_best_match(last_call[1].before[1],
                            last_call[1].old_string).strategy_name
               = "whitespace_normalized"

(* C35: when old does not occur in content, strategies 1 to 5 fail and   *)
(* the whitespace-collapsed old occurs exactly once in the collapsed      *)
(* content, apply_edit succeeds with strategy "whitespace_normalized"    *)
C35_WhitespaceNormalizedSucceeds ==
    OnlyWhitespaceNormalizedMatches =>
        /\ last_call[1].applied[1][1]
        /\ last_call[1].applied[1][3] = StrategyChars("whitespace_normalized")

----------------------------------------------------------------------------
(* What a failed edit leaves behind *)

(* the last call was edit_file *)
EditReturned == IF last_call = None THEN FALSE ELSE last_call[1].tool = "edit_file"

(* apply_edit returned success false with the content it was given *)
FailedApplyKeepsContent ==
    (last_call[1].applied # None /\ ~last_call[1].applied[1][1]) =>
        last_call[1].applied[1][2] = last_call[1].before[1]

(* C36: when apply_edit returns success false the content it returns is *)
(* the content it was given; on every FAILED or DENIED return of        *)
(* edit_file the file is as it was before the call; and the file is     *)
(* written at most once per call, only after a successful match         *)
C36_FailedEditLeavesFile ==
    EditReturned =>
        /\ FailedApplyKeepsContent
        /\ last_call[1].result.status \in { "FAILED", "DENIED" } =>
              /\ last_call[1].writes = << >>
              /\ file = last_call[1].before
        /\ Len(last_call[1].writes) <= 1
        /\ last_call[1].writes # << >> =>
              /\ last_call[1].applied # None
              /\ last_call[1].applied[1][1]

----------------------------------------------------------------------------
(* The order of the tool calls of the final chunk *)

(* the buffers in ascending order of their index *)
AscendingByIndex(bufs) ==
    [k \in 1..Len(bufs) |->
        bufs[CHOOSE j \in 1..Len(bufs) :
                Cardinality({ i \in 1..Len(bufs) : bufs[i].index < bufs[j].index })
                  = k - 1]]

(* the last line read was a delta that emitted tool calls *)
FinalChunkEmitted ==
    /\ lines_in # << >>
    /\ lines_in[Len(lines_in)].kind = "delta"
    /\ chunks_out[Len(chunks_out)].tool_calls # None

(* C37: the tool calls of the final chunk are in ascending order of the   *)
(* index of their fragments, whatever the order in which the indexes      *)
(* first arrived                                                          *)
C37_CallsInIndexOrder ==
    FinalChunkEmitted =>
        chunks_out[Len(chunks_out)].tool_calls[1]
          = ParsedCalls(AscendingByIndex(tool_call_buffers))

----------------------------------------------------------------------------
(* The working_dir argument of the run_command tool *)

RunCommandToolCalled == gate_call # None /\ gate_call[1].op = "run_command tool"

(* the working_dir argument names a directory outside the sandbox root *)
OverrideOutside ==
    IF gate_call[1].working_dir \in { None, Some(<< >>) } THEN FALSE
    ELSE ~is_path_inside_directory(gate_call[1].working_dir[1],
                                   gate_call[1].default_working_dir[1])

(* the command is flagged when its paths are judged against the sandbox *)
(* root                                                                 *)
FlaggedAgainstRoot ==
    check_dangerous_command(gate_call[1].command,
                            gate_call[1].default_working_dir[1])[1]

(* C38: a run_command call whose working_dir argument is outside the      *)
(* configured sandbox root, or whose command names a path outside that    *)
(* root, is handed to a subprocess only after the confirmation callback   *)
(* returned a true value for it                                           *)
C38_OverrideHeldToSandbox ==
    RunCommandToolCalled /\ (OverrideOutside \/ FlaggedAgainstRoot) =>
        (gate_call[1].returned.spawned # << >> => ConfirmedByCallback)

----------------------------------------------------------------------------
(* The log, the copies of it and the requests built from it *)

(* the log grew by one message at its end, or is the fresh log *)
AppendedOrCleared ==
    \/ messages' = _initialize
    \/ /\ Len(messages') = Len(messages) + 1
       /\ SubSeq(messages', 1, Len(messages)) = messages

(* the system message of the k-th request is the log's system message  *)
(* followed by the tools text once, or the system message alone when   *)
(* chat() was given no tool                                            *)
InjectedOnce(k) ==
    \E tools \in ChatToolLists :
        payloads'[k][1].content = Some(SystemContent \o tools_description(tools))

(* C39: the log changes only by an append or a clear: a step in which   *)
(* get_messages hands out a list, the caller appends to, removes from   *)
(* or reorders that list, or chat() builds a request leaves the log as  *)
(* it was, the system message of the log keeps its content, and every   *)
(* request carries that content with the tools text added once          *)
C39_LogChangedOnlyByAppendAndClear ==
    [][/\ messages' # messages => AppendedOrCleared
       /\ (snapshot' # snapshot \/ payloads' # payloads) => messages' = messages
       /\ messages'[1].content = Some(SystemContent)
       /\ \A k \in 1..Len(payloads') : InjectedOnce(k)]_vars

(* two requests with tools were built from a log with a user message,  *)
(* and the caller holds a list it has changed                          *)
C39_Witness ==
    /\ Len(payloads) = 2
    /\ payloads[1][1].content # Some(SystemContent)
    /\ payloads[2][1].content # Some(SystemContent)
    /\ Len(messages) = 2
    /\ snapshot # None
    /\ snapshot # Some(get_messages(messages))

----------------------------------------------------------------------------
(* The directory of list_directory and search_files *)

(* the handler of list_directory or of search_files was entered on a call *)
(* whose arguments name the directory under the key `path`                *)
DirectoryUnderPath ==
    IF dispatched = None THEN FALSE
    ELSE /\ Dispatch.entered
         /\ Dispatch.invoked.handler
               \in { "list_directory_handler", "search_files_handler" }
         /\ N_path \in DictKeys(Dispatch.call.arguments)

(* C40: a list_directory or search_files call dispatched through        *)
(* execute_async with the directory under the argument key `path` works *)
(* on that directory, not on the handler's default "."                  *)
C40_PathReachesDirectoryParameter ==
    DirectoryUnderPath =>
        DictGet(Dispatch.returned[1].value, "dir_path")
          = DictGet(Dispatch.call.arguments, N_path)

====
